---------------------------- MODULE Spec2Model ----------------------------
(***************************************************************************)
(* EFM32 temperature / humidity firmware core:                             *)
(*   - sleep-mode arbiter        (src/Source_Files/sleep_routines.c)       *)
(*   - event scheduler           (src/Source_Files/scheduler.c)            *)
(*   - I2C transaction engine    (src/Source_Files/i2c.c)                  *)
(*   - main dispatch loop        (src/main.c)                              *)
(* The processor is a single core: the main context and the interrupt      *)
(* handlers interleave, a handler runs to completion, and a critical       *)
(* section of the main context is one step.                                *)
(***************************************************************************)
EXTENDS Integers, Sequences, FiniteSets, TLC

VARIABLES
    lowest_energy_mode,  \* sleep_routines.c: block counter per energy mode
    event_scheduled,     \* scheduler.c: pending-event bitmask
    fatal,               \* which EFM_ASSERT failed ("none" while running)
    selected_em,         \* last value returned by current_block_energy_mode
    entered,             \* sleep instruction issued by the last enter_sleep
    pat,                 \* observer: the block/unblock calls made so far
    sm,                  \* i2c.c: i2c0_state_machine, i2c1_state_machine
    mem,                 \* the uint32_t cells the requests' data pointers name
    hw,                  \* I2C peripheral: phase of the bus
    i2c_IF,              \* I2C peripheral: interrupt flags set (IF)
    IEN,                 \* I2C peripheral: interrupt flags enabled
    RXDATA,              \* I2C peripheral: receive buffer
    wire,                \* what each bus has carried since the last START
    letimer_IF,          \* LETIMER0: underflow flag pending
    pc,                  \* position of the main context
    gh                   \* observer: transactions started, bytes stored, posts

vars == <<lowest_energy_mode, event_scheduled, fatal, selected_em, entered, pat,
          sm, mem, hw, i2c_IF, IEN, RXDATA, wire, letimer_IF, pc, gh>>
arbiterVars == <<selected_em, pat>>
engineVars == <<sm, mem, hw, i2c_IF, IEN, RXDATA, wire, letimer_IF, pc, gh>>

(***************************************************************************)
(* Program constants                                                       *)
(***************************************************************************)
EM0 == 0
EM1 == 1
EM2 == 2
EM3 == 3
EM4 == 4
MAX_ENERGY_MODES == 5
BLOCK_LIMIT == 5
I2C_R == 1
I2C_W == 0
I2C_EM == EM2
LETIMER0_COMP0_CB == 1
LETIMER0_COMP1_CB == 2
LETIMER0_UF_CB == 4
GPIO_EVEN_IRQ_CB == 8
GPIO_ODD_IRQ_CB == 16
SI7021_READ_HUM_CB == 32
SI7021_READ_TEMP_CB == 64
SHTC3_READ_CB == 128
SI7021_USER_CONFIRM == 256
SI7021_WHICH_I2C == 0
SI7021_DEVICE_ADDR == 64
SI7021_HUM_CMD == 245
SI7021_TEMP_CMD == 243
SI7021_READ_USER_CMD == 231
SI7021_WRITE_USER_CMD == 230
SI7021_USER_SETTINGS == 59
SHTC3_DEVICE_ADDRESS == 112
SHTC3_WAKEUP_CMD == 13591
SHTC3_SLEEP_CMD == 45208
SHTC3_MEASURE_CMD_T_FIRST == 30822

Buses == {0, 1}

Modes == 0 .. (MAX_ENERGY_MODES - 1)

(***************************************************************************)
(* Bounds of the model                                                     *)
(***************************************************************************)
InitMaxBlocks == 2
MaxTicks == 1
MaxNacks == 1
MaxWire == 24
MaxUB == 1
MaxHeld == 2
MaxPosts == 3
MaxSpurious == 1

Halted == fatal # "none"

(***************************************************************************)
(* Sleep-mode arbiter, as pure functions of the counter table              *)
(***************************************************************************)
\* sleep_open: every counter zero
sleep_open_table == [i \in Modes |-> 0]

\* lowest_energy_mode[EM]++
BlockTable(t, EM) == [t EXCEPT ![EM] = @ + 1]

\* A flag per mode instead of a count: any unblock lifts the block
UnblockClears(t, EM) == [t EXCEPT ![EM] = 0]

\* lowest_energy_mode[EM]--   (the table is an int array: it can hold -1)
UnblockTable(t, EM) == [t EXCEPT ![EM] = @ - 1]

\* The assertion with <= in place of < accepts a fifth block
BlockAssertOffByOne(t, EM) == t[EM] <= BLOCK_LIMIT

\* EFM_ASSERT(lowest_energy_mode[EM] < 5), evaluated after the increment
BlockAssertOk(t, EM) == t[EM] < BLOCK_LIMIT

\* The assertion with > in place of >= rejects the unblock that returns to 0
UnblockAssertStrict(t, EM) == t[EM] > 0

\* EFM_ASSERT(lowest_energy_mode[EM] >= 0), evaluated after the decrement
UnblockAssertOk(t, EM) == t[EM] >= 0

\* The for loop of current_block_energy_mode: i runs over 0..4, the first
\* counter > 0 sets done and selected_em.
RECURSIVE ScanModes(_, _, _, _)
ScanModes(t, i, done, sel) ==
    IF i >= MAX_ENERGY_MODES THEN sel
    ELSE IF (~done) /\ t[i] > 0 THEN ScanModes(t, i + 1, TRUE, i)
    ELSE ScanModes(t, i + 1, done, sel)

\* A scan without the done flag returns the last blocked mode, not the first
RECURSIVE ScanModesNoDone(_, _, _, _)
ScanModesNoDone(t, i, done, sel) ==
    IF i >= MAX_ENERGY_MODES THEN sel
    ELSE IF t[i] > 0 THEN ScanModesNoDone(t, i + 1, TRUE, i)
    ELSE ScanModesNoDone(t, i + 1, done, sel)

CurrentBlockNoDone(t) == ScanModesNoDone(t, 0, FALSE, EM4)

current_block_energy_mode(t) == ScanModes(t, 0, FALSE, EM4)

\* enter_sleep's chain of tests: the EMU_EnterEMx call it makes, "return"
\* for a plain return
EnterSleepShifted(t) ==
    IF t[EM0] # 0 THEN "return"
    ELSE IF t[EM1] # 0 THEN "return"
    ELSE IF t[EM2] # 0 THEN "EMU_EnterEM2"
    ELSE IF t[EM3] # 0 THEN "EMU_EnterEM3"
    ELSE "EMU_EnterEM3"

enter_sleep_mode(t) ==
    IF t[EM0] # 0 THEN "return"
    ELSE IF t[EM1] # 0 THEN "return"
    ELSE IF t[EM2] # 0 THEN "EMU_EnterEM1"
    ELSE IF t[EM3] # 0 THEN "EMU_EnterEM2"
    ELSE "EMU_EnterEM3"


(***************************************************************************)
(* Bit operations on small naturals, and uint32_t values as four bytes,    *)
(* most significant first (the model checker's integers end below 2^31)    *)
(***************************************************************************)
RECURSIVE BitAnd(_, _)
BitAnd(a, b) ==
    IF a = 0 \/ b = 0 THEN 0
    ELSE (a % 2) * (b % 2) + 2 * BitAnd(a \div 2, b \div 2)

RECURSIVE BitOr(_, _)
BitOr(a, b) ==
    IF a = 0 THEN b
    ELSE IF b = 0 THEN a
    ELSE (IF a % 2 = 1 \/ b % 2 = 1 THEN 1 ELSE 0) + 2 * BitOr(a \div 2, b \div 2)

\* a & ~b
BitClear(a, b) == a - BitAnd(a, b)

\* The uint32_t of a natural below 2^24, and the natural of a small uint32_t
U32(n) == <<0, (n \div 65536) % 256, (n \div 256) % 256, n % 256>>
Zero32 == <<0, 0, 0, 0>>
IsZero32(w) == w = Zero32
Low24(w) == w[2] * 65536 + w[3] * 256 + w[4]

\* x - 1 on uint32_t: the borrow runs up the bytes, 0 wraps to 0xFFFFFFFF
Dec32(w) ==
    IF w[4] > 0 THEN <<w[1], w[2], w[3], w[4] - 1>>
    ELSE IF w[3] > 0 THEN <<w[1], w[2], w[3] - 1, 255>>
    ELSE IF w[2] > 0 THEN <<w[1], w[2] - 1, 255, 255>>
    ELSE IF w[1] > 0 THEN <<w[1] - 1, 255, 255, 255>>
    ELSE <<255, 255, 255, 255>>

\* x << 8 on uint32_t: the top byte is lost
Shl8(w) == <<w[2], w[3], w[4], 0>>

\* x |= v for a v below 256
OrLow(w, v) == <<w[1], w[2], w[3], BitOr(w[4], v)>>

\* x & (0xFF << (8 * n)) and x >> (8 * n), n in 0..3
MaskByte(w, n) == [i \in 1 .. 4 |-> IF i = 4 - n THEN w[i] ELSE 0]
ShrBytes(w, n) == [i \in 1 .. 4 |-> IF i - n >= 1 THEN w[i - n] ELSE 0]

(***************************************************************************)
(* Event scheduler                                                         *)
(***************************************************************************)
\* A clear that clears nothing
RemoveKeeps(ev, e) == ev

\* event_scheduled |= event
add_scheduled_event(ev, event) == BitOr(ev, event)

\* A clear that empties the whole set
RemoveClearsAll(ev, e) == 0

\* event_scheduled &= ~event
remove_scheduled_event(ev, event) == BitClear(ev, event)

\* get_scheduled_events() & event
EventPending(ev, event) == BitAnd(ev, event) # 0

(***************************************************************************)
(* I2C transaction engine: one context k per bus step                      *)
(*   k.sm    the bus's I2C_STATE_MACHINE_STRUCT                            *)
(*   k.hw, k.wire, k.rx   the peripheral (phase, bus history, RXDATA)      *)
(*   k.mem, k.ev, k.lem, k.fatal   memory, scheduler, arbiter, assertion   *)
(*   k.started, k.held, k.acc, k.nacks, k.ubs, k.fin   observer            *)
(***************************************************************************)
Sym(kind, v) == <<kind, v>>

KFatal(k, which) == IF k.fatal = "none" THEN [k EXCEPT !.fatal = which] ELSE k

\* i2cx->CMD = I2C_CMD_START: a START when no transfer is in progress, a
\* repeated START otherwise
CmdStart(k) ==
    [k EXCEPT !.wire = Append(@, Sym(IF k.hw \in {"idle", "enabled"} THEN "START"
                                     ELSE "RSTART", 0)),
              !.hw = "started"]

\* i2cx->TXDATA = v: the byte goes out; after a START its low bit selects the
\* direction of what follows
TxData(k, v) ==
    [k EXCEPT !.wire = Append(@, Sym("TX", v % 256)),
              !.hw = IF k.hw = "started" /\ v % 2 = I2C_R THEN "txr" ELSE "tx"]

\* i2cx->CMD = I2C_CMD_ACK: the master acknowledges, the slave sends on
CmdAck(k) == [k EXCEPT !.wire = Append(@, Sym("MACK", 0)), !.hw = "rx"]

\* i2cx->CMD = I2C_CMD_NACK
CmdNack(k) == [k EXCEPT !.wire = Append(@, Sym("MNACK", 0)), !.hw = "hold"]

\* i2cx->CMD = I2C_CMD_STOP
CmdStop(k) == [k EXCEPT !.wire = Append(@, Sym("STOP", 0)), !.hw = "stop"]

\* Sending the least significant byte first: which_byte = total - counter
WhichByteLowFirst(counter, total) == U32(total - Low24(counter))

\* which_byte = counter - 1 (uint32_t)
WhichByte(counter, total) == Dec32(counter)

\* The shift by 8 * which_byte is defined
ShiftDefined(which_byte) ==
    which_byte[1] = 0 /\ which_byte[2] = 0 /\ which_byte[3] = 0 /\ which_byte[4] < 4

\* data_copy &= 0xFF << (8 * which_byte); data_copy >>= 8 * which_byte; the
\* byte written to TXDATA. For which_byte >= 4 the shift count is 32 or
\* more, which C leaves undefined: ub is the byte the build then produces.
SelectByte(data, which_byte, ub) ==
    IF ShiftDefined(which_byte)
    THEN ShrBytes(MaskByte(data, which_byte[4]), which_byte[4])[4]
    ELSE ub

\* The block "send the next register byte" of i2c_ack_sm (lines 65-73)
SendRegisterByte(k, ub) ==
    LET which_byte == WhichByte(k.sm.register_byte_counter, k.sm.num_register_bytes)
        k1 == TxData(k, SelectByte(k.sm.register_address, which_byte, ub))
    IN  [k1 EXCEPT !.sm.register_byte_counter = Dec32(@),
                   !.ubs = IF ShiftDefined(which_byte) THEN @ ELSE @ + 1]

\* The block "send the next payload byte" of i2c_ack_sm (lines 80-88, 99-107,
\* 125-133)
SendPayloadByte(k, ub) ==
    LET which_byte == WhichByte(k.sm.byte_counter, k.sm.num_bytes)
        k1 == TxData(k, SelectByte(k.mem[k.sm.data], which_byte, ub))
    IN  [k1 EXCEPT !.sm.byte_counter = Dec32(@),
                   !.ubs = IF ShiftDefined(which_byte) THEN @ ELSE @ + 1]

i2c_ack_sm(k, ub) ==
    CASE k.sm.current_state = "initialize" ->
           IF ~IsZero32(k.sm.register_byte_counter)
           THEN LET k1 == SendRegisterByte([k EXCEPT !.sm.current_state = "send_register"], ub)
                IN  IF ~IsZero32(k1.sm.register_byte_counter)
                    THEN [k1 EXCEPT !.sm.current_state = "initialize"]
                    ELSE k1
           ELSE SendPayloadByte([k EXCEPT !.sm.current_state = "send_register"], ub)
      [] k.sm.current_state = "send_register" ->
           IF k.sm.comm_method = "I2C_READ"
           THEN TxData(CmdStart([k EXCEPT !.sm.current_state = "request_read"]),
                       BitOr(k.sm.device_address * 2, I2C_R))
           ELSE SendPayloadByte([k EXCEPT !.sm.current_state = "write_data"], ub)
      [] k.sm.current_state = "request_read" ->
           IF k.sm.comm_method # "I2C_READ" THEN KFatal(k, "ack_request_read")
           ELSE [k EXCEPT !.sm.current_state = "read_data"]
      [] k.sm.current_state = "read_data" -> KFatal(k, "ack_read_data")
      [] k.sm.current_state = "write_data" ->
           IF k.sm.comm_method # "I2C_WRITE" THEN KFatal(k, "ack_write_data")
           ELSE IF ~IsZero32(k.sm.byte_counter) THEN SendPayloadByte(k, ub)
           ELSE [CmdStop(k) EXCEPT !.sm.current_state = "send_stop"]
      [] k.sm.current_state = "send_stop" -> KFatal(k, "ack_send_stop")
      [] k.sm.current_state = "end_process" -> KFatal(k, "ack_end_process")

\* A NACK handler that gives the transaction up
NackAborts(k) == [k EXCEPT !.sm.busy = FALSE, !.sm.current_state = "end_process"]

\* A NACK handler that resends the read address in every state
NackAlwaysRetries(k) == TxData(CmdStart(k), BitOr(k.sm.device_address * 2, I2C_R))

i2c_nack_sm(k) ==
    IF k.sm.current_state # "request_read" THEN KFatal(k, "nack")
    ELSE TxData(CmdStart(k), BitOr(k.sm.device_address * 2, I2C_R))

\* sleep_unblock_mode(I2C_EM) as called by the engine
EngineUnblock(k) ==
    LET t == UnblockTable(k.lem, I2C_EM)
        k1 == [k EXCEPT !.lem = t, !.held = @ - 1,
                        !.fin[k.sm.finished_callback].rel = (k.held = 1)]
    IN  IF UnblockAssertOk(t, I2C_EM) THEN k1 ELSE KFatal(k1, "unblock_negative")

\* add_scheduled_event(finished_callback); the observer notes what the
\* transaction had done when it posted
EnginePost(k) ==
    [k EXCEPT !.ev = add_scheduled_event(@, k.sm.finished_callback),
              !.started = @ - 1,
              !.fin[k.sm.finished_callback] =
                   [posted |-> TRUE, n |-> k.sm.num_bytes,
                    left |-> k.sm.byte_counter, acc |-> k.acc,
                    method |-> k.sm.comm_method, rel |-> FALSE]]

\* A stop handler that forgets to release the sleep block
StopNoUnblock(k) ==
    IF k.sm.current_state # "send_stop" THEN KFatal(k, "stop")
    ELSE LET k1 == EnginePost([k EXCEPT !.sm.current_state = "end_process"])
         IN  [k1 EXCEPT !.sm.busy = FALSE]

i2c_stop_sm(k) ==
    IF k.sm.current_state # "send_stop" THEN KFatal(k, "stop")
    ELSE LET k1 == EnginePost([k EXCEPT !.sm.current_state = "end_process"])
             k2 == [k1 EXCEPT !.sm.busy = FALSE]
         IN  EngineUnblock(k2)

i2c_rxdatav_sm(k) ==
    LET rxdata == k.rx IN
    IF ~IsZero32(k.sm.byte_counter)
    THEN LET shifted == Shl8(k.mem[k.sm.data])
             k1 == [k EXCEPT !.mem[k.sm.data] = OrLow(shifted, rxdata),
                             !.sm.byte_counter = Dec32(@),
                             !.acc = @ + 1]
         IN  CmdAck(k1)
    ELSE [CmdStop(CmdNack(k)) EXCEPT !.sm.current_state = "send_stop"]

\* i2c_isr: the handlers run in this order for the flags found set; a failed
\* assertion stops the handler where it is
IsrStep(k, flag, int_flag, ub) ==
    IF flag \notin int_flag \/ k.fatal # "none" THEN k
    ELSE CASE flag = "ACK" -> i2c_ack_sm(k, ub)
           [] flag = "NACK" -> i2c_nack_sm(k)
           [] flag = "RXDATAV" -> i2c_rxdatav_sm(k)
           [] flag = "MSTOP" -> i2c_stop_sm(k)

i2c_isr(k, int_flag, ub) ==
    IsrStep(IsrStep(IsrStep(IsrStep(k, "ACK", int_flag, ub),
                            "NACK", int_flag, ub),
                    "RXDATAV", int_flag, ub),
            "MSTOP", int_flag, ub)


(***************************************************************************)
(* Transaction requests (I2C_START_STRUCT); value is what the caller       *)
(* stores in *data before it calls i2c_start                               *)
(***************************************************************************)
Request(bus, method, dev, reg, nreg, n, cb, cell, value) ==
    [which_i2c |-> bus, comm_method |-> method, device_address |-> dev,
     register_address |-> reg, num_register_bytes |-> nreg, num_bytes |-> n,
     finished_callback |-> cb, data |-> cell, value |-> value]

\* The requests the two sensor drivers make
si7021_write_user ==
    Request(0, "I2C_WRITE", SI7021_DEVICE_ADDR, U32(SI7021_WRITE_USER_CMD), 1, 1, 0,
            "data_to_write", U32(SI7021_USER_SETTINGS))
si7021_read_user ==
    Request(0, "I2C_READ", SI7021_DEVICE_ADDR, U32(SI7021_READ_USER_CMD), 1, 1,
            SI7021_USER_CONFIRM, "user_settings_bytes", Zero32)
si7021_read_humidity ==
    Request(0, "I2C_READ", SI7021_DEVICE_ADDR, U32(SI7021_HUM_CMD), 1, 2,
            SI7021_READ_HUM_CB, "hum_bytes", Zero32)
si7021_read_temp ==
    Request(0, "I2C_READ", SI7021_DEVICE_ADDR, U32(SI7021_TEMP_CMD), 1, 2,
            SI7021_READ_TEMP_CB, "temp_bytes", Zero32)
shtc3_wakeup ==
    Request(1, "I2C_WRITE", SHTC3_DEVICE_ADDRESS, Zero32, 0, 2, 0, "shtc3_data", U32(SHTC3_WAKEUP_CMD))
shtc3_measure ==
    Request(1, "I2C_READ", SHTC3_DEVICE_ADDRESS, U32(SHTC3_MEASURE_CMD_T_FIRST), 2, 6,
            SHTC3_READ_CB, "output_bytes", Zero32)
shtc3_sleep ==
    Request(1, "I2C_WRITE", SHTC3_DEVICE_ADDRESS, Zero32, 0, 2, 0, "shtc3_data", U32(SHTC3_SLEEP_CMD))

AppRequests ==
    {si7021_write_user, si7021_read_user, si7021_read_humidity, si7021_read_temp,
     shtc3_wakeup, shtc3_measure, shtc3_sleep}

\* Every request shape of the engine's interface on one bus: 0..4 register
\* bytes, 1..4 payload bytes, either direction
BusRegister == <<161, 178, 195, 230>>      \* 0xA1B2C3E6
WriteValues == {U32(59), U32(4660), <<161, 178, 195, 212>>}   \* 0x3B, 0x1234, 0xA1B2C3D4
ReadInitValues == {Zero32, U32(171)}
BusRequests ==
    {Request(0, "I2C_WRITE", SI7021_DEVICE_ADDR, BusRegister, R, N, SI7021_READ_HUM_CB, "buf", v) :
        R \in 0 .. 4, N \in 1 .. 4, v \in WriteValues}
    \cup
    {Request(0, "I2C_READ", SI7021_DEVICE_ADDR, BusRegister, R, N, SI7021_READ_HUM_CB, "buf", v) :
        R \in 0 .. 4, N \in 1 .. 4, v \in ReadInitValues}

Cells == {"data_to_write", "user_settings_bytes", "hum_bytes", "temp_bytes",
          "shtc3_data", "output_bytes", "buf", "t", "t_crc", "rh", "rh_crc"}
Callbacks == {0, SI7021_READ_HUM_CB, SI7021_READ_TEMP_CB, SHTC3_READ_CB, SI7021_USER_CONFIRM}

\* Bytes a device sends, and the byte an undefined shift may produce
RxBytes == {86, 120}       \* 0x56, 0x78
AppRxBytes == {59}         \* 0x3B
UBBytes == {0, 255}

\* The users of the arbiter in the several-users specification
Users == {"A", "B"}

\* The zero-initialised static context, busy cleared by i2c_open
sm_reset ==
    [current_state |-> "initialize", which_i2c |-> 0, device_address |-> 0,
     register_address |-> Zero32, num_bytes |-> 0, finished_callback |-> 0,
     comm_method |-> "I2C_READ", busy |-> FALSE, data |-> "null",
     byte_counter |-> Zero32, num_register_bytes |-> 0,
     register_byte_counter |-> Zero32]

fin_none == [posted |-> FALSE, n |-> 0, left |-> Zero32, acc |-> 0, method |-> "none", rel |-> FALSE]

gh_reset ==
    [started |-> [b \in Buses |-> 0], held |-> [b \in Buses |-> 0],
     acc |-> [b \in Buses |-> 0], nacks |-> [b \in Buses |-> 0],
     ubs |-> [b \in Buses |-> 0],
     req |-> [b \in Buses |-> <<>>],
     own |-> [u \in Users |-> [m \in Modes |-> 0]], last |-> <<"open", "A", 0>>,
     posts |-> 0, k |-> 0, lastk |-> 0, batches |-> 0, dispatches |-> 0,
     spur |-> 0, freed |-> {}, opened |-> {},
     fin |-> [c \in Callbacks |-> fin_none], ticks |-> 0, gpio_IF |-> {}]

\* Position of the main context: in script (the i2c_start calls of the
\* handler being run) at call i, or at entry i of the dispatch loop; ret is
\* the dispatch entry the handler returns to (0 for start-up)
pc_at(at, script, i, ret) ==
    [at |-> at, script |-> script, i |-> i, ret |-> ret, reg |-> 0, saved |-> {}]

\* The flags i2c_open enables: I2C_IEN_ACK | NACK | MSTOP | RXDATAV
I2cFlags == {"ACK", "NACK", "RXDATAV", "MSTOP"}

\* After both buses are opened: contexts idle, buses idle, no flag pending
InitEngine ==
    /\ sm = [b \in Buses |-> sm_reset]
    /\ mem = [c \in Cells |-> Zero32]
    /\ hw = [b \in Buses |-> "idle"]
    /\ i2c_IF = [b \in Buses |-> {}]
    /\ IEN = [b \in Buses |-> I2cFlags]
    /\ RXDATA = [b \in Buses |-> 0]
    /\ wire = [b \in Buses |-> <<>>]
    /\ letimer_IF = {}
    /\ pc = pc_at("call", <<>>, 1, 0)
    /\ gh = gh_reset

(***************************************************************************)
(* Observer of the call pattern block(m)^nb unblock(m)^nu since the mark   *)
(***************************************************************************)
PatOff == [on |-> FALSE, m |-> 0, start |-> sleep_open_table, nb |-> 0, nu |-> 0]
PatMark(t) == [on |-> TRUE, m |-> 0, start |-> t, nb |-> 0, nu |-> 0]

PatBlock(p, EM) ==
    IF ~p.on THEN p
    ELSE IF p.nb = 0 THEN [p EXCEPT !.m = EM, !.nb = 1]
    ELSE IF p.m = EM /\ p.nu = 0 THEN [p EXCEPT !.nb = @ + 1]
    ELSE PatOff

PatUnblock(p, EM) ==
    IF ~p.on THEN p
    ELSE IF p.nb > 0 /\ p.m = EM /\ p.nu <= p.nb THEN [p EXCEPT !.nu = @ + 1]
    ELSE PatOff

(***************************************************************************)
(* SpecSleep: the arbiter under every sequence of calls                    *)
(***************************************************************************)
InitSleep ==
    /\ lowest_energy_mode \in [Modes -> 0 .. InitMaxBlocks]
    /\ event_scheduled = 0
    /\ fatal = "none"
    /\ selected_em = <<>>
    /\ entered = "not_called"
    /\ pat = PatMark(lowest_energy_mode)
    /\ InitEngine

SleepOpen ==
    /\ ~Halted
    /\ lowest_energy_mode' = sleep_open_table
    /\ pat' = PatMark(sleep_open_table)
    /\ selected_em' = <<>>
    /\ entered' = "not_called"
    /\ UNCHANGED <<event_scheduled, fatal, engineVars>>

SleepBlockMode(EM) ==
    /\ ~Halted
    /\ lowest_energy_mode' = BlockTable(lowest_energy_mode, EM)
    /\ fatal' = IF BlockAssertOk(lowest_energy_mode', EM) THEN "none" ELSE "block_bound"
    /\ pat' = PatBlock(pat, EM)
    /\ selected_em' = <<>>
    /\ entered' = "not_called"
    /\ UNCHANGED <<event_scheduled, engineVars>>

SleepUnblockMode(EM) ==
    /\ ~Halted
    /\ lowest_energy_mode' = UnblockTable(lowest_energy_mode, EM)
    /\ fatal' = IF UnblockAssertOk(lowest_energy_mode', EM) THEN "none" ELSE "unblock_negative"
    /\ pat' = PatUnblock(pat, EM)
    /\ selected_em' = <<>>
    /\ entered' = "not_called"
    /\ UNCHANGED <<event_scheduled, engineVars>>

CurrentBlockEnergyMode ==
    /\ ~Halted
    /\ selected_em' = <<current_block_energy_mode(lowest_energy_mode)>>
    /\ entered' = "not_called"
    /\ UNCHANGED <<lowest_energy_mode, event_scheduled, fatal, pat, engineVars>>

EnterSleep ==
    /\ ~Halted
    /\ entered' = enter_sleep_mode(lowest_energy_mode)
    /\ selected_em' = <<>>
    /\ UNCHANGED <<lowest_energy_mode, event_scheduled, fatal, pat, engineVars>>

NextSleep ==
    \/ SleepOpen
    \/ \E EM \in Modes : SleepBlockMode(EM)
    \/ \E EM \in Modes : SleepUnblockMode(EM)
    \/ CurrentBlockEnergyMode
    \/ EnterSleep

SpecSleep == InitSleep /\ [][NextSleep]_vars


(***************************************************************************)
(* SpecUsers: several users block and unblock, each unblocking only what   *)
(* it blocked                                                              *)
(***************************************************************************)
RECURSIVE SumOver(_, _)
SumOver(f, S) ==
    IF S = {} THEN 0
    ELSE LET x == CHOOSE y \in S : TRUE IN f[x] + SumOver(f, S \ {x})

\* Blocks user u holds, over all modes
HeldBy(u) == SumOver(gh.own[u], Modes)

InitIdle ==
    /\ lowest_energy_mode = sleep_open_table
    /\ event_scheduled = 0
    /\ fatal = "none"
    /\ selected_em = <<>>
    /\ entered = "not_called"
    /\ pat = PatOff
    /\ InitEngine

UserBlock(u, EM) ==
    /\ ~Halted /\ HeldBy(u) < MaxHeld
    /\ lowest_energy_mode' = BlockTable(lowest_energy_mode, EM)
    /\ fatal' = IF BlockAssertOk(lowest_energy_mode', EM) THEN "none" ELSE "block_bound"
    /\ gh' = [gh EXCEPT !.own[u][EM] = @ + 1, !.last = <<"block", u, EM>>]
    /\ selected_em' = <<>>
    /\ UNCHANGED <<event_scheduled, entered, pat, IEN, sm, mem, hw, i2c_IF, RXDATA, wire,
                   letimer_IF, pc>>

UserUnblock(u, EM) ==
    /\ ~Halted /\ gh.own[u][EM] > 0
    /\ lowest_energy_mode' = UnblockTable(lowest_energy_mode, EM)
    /\ fatal' = IF UnblockAssertOk(lowest_energy_mode', EM) THEN "none" ELSE "unblock_negative"
    /\ gh' = [gh EXCEPT !.own[u][EM] = @ - 1, !.last = <<"unblock", u, EM>>]
    /\ selected_em' = <<>>
    /\ UNCHANGED <<event_scheduled, entered, pat, IEN, sm, mem, hw, i2c_IF, RXDATA, wire,
                   letimer_IF, pc>>

UserQuery ==
    /\ ~Halted
    /\ selected_em' = <<current_block_energy_mode(lowest_energy_mode)>>
    /\ UNCHANGED <<lowest_energy_mode, event_scheduled, fatal, entered, pat, engineVars>>

NextUsers ==
    \/ \E u \in Users : \E EM \in Modes : UserBlock(u, EM)
    \/ \E u \in Users : \E EM \in Modes : UserUnblock(u, EM)
    \/ UserQuery

SpecUsers == InitIdle /\ [][NextUsers]_vars


(***************************************************************************)
(* The system: main context, peripherals and interrupt handlers            *)
(***************************************************************************)
Ctx(b) ==
    [sm |-> sm[b], hw |-> hw[b], wire |-> wire[b], rx |-> RXDATA[b],
     mem |-> mem, ev |-> event_scheduled, lem |-> lowest_energy_mode,
     fatal |-> fatal, started |-> gh.started[b], held |-> gh.held[b],
     acc |-> gh.acc[b], nacks |-> gh.nacks[b], ubs |-> gh.ubs[b],
     fin |-> gh.fin]

Install(b, k, g) ==
    /\ sm' = [sm EXCEPT ![b] = k.sm]
    /\ hw' = [hw EXCEPT ![b] = k.hw]
    /\ wire' = [wire EXCEPT ![b] = k.wire]
    /\ mem' = k.mem
    /\ event_scheduled' = k.ev
    /\ lowest_energy_mode' = k.lem
    /\ fatal' = k.fatal
    /\ gh' = [g EXCEPT !.started[b] = k.started, !.held[b] = k.held,
                       !.acc[b] = k.acc, !.nacks[b] = k.nacks,
                       !.ubs[b] = k.ubs, !.fin = k.fin]

\* A timer with all three of its interrupts enabled
LetimerIenAll == {"COMP0", "COMP1", "UF"}

\* LETIMER0->IEN as letimer_pwm_open leaves it: comp0_irq_enable = false,
\* comp1_irq_enable = true, uf_irq_enable = true
LetimerIen == {"COMP1", "UF"}

\* An enabled interrupt is pending: it preempts the main context
IrqPending ==
    \/ \E b \in Buses : i2c_IF[b] \cap IEN[b] # {}
    \/ letimer_IF \cap LetimerIen # {}
    \/ gh.gpio_IF # {}

\* Interrupts that are never masked
NoCritical(p) == FALSE

\* The main context is between CORE_ENTER_CRITICAL and CORE_EXIT_CRITICAL:
\* enter_sleep and the sleep instruction in the main loop, the
\* accesses of event_scheduled in scheduler.c
InCritical(p) ==
    p.at \in {"enter_sleep", "asleep", "add_store", "remove_store", "open_store"}

\* The main context executes its next statement: a pending interrupt comes
\* first unless interrupts are masked
MainAt(at) == ~Halted /\ pc.at = at /\ (~IrqPending \/ InCritical(pc))

\* What app_peripheral_setup and scheduled_letimer0_uf_cb ask of the engine
SetupScript == <<si7021_write_user, si7021_read_user>>
UfScript ==
    <<si7021_read_humidity, si7021_read_temp, shtc3_wakeup, shtc3_measure, shtc3_sleep>>

\* A main loop that looks at the sensor events before the timer events
DispatchSensorsFirst ==
    <<SI7021_READ_HUM_CB, SI7021_READ_TEMP_CB, SHTC3_READ_CB, SI7021_USER_CONFIRM,
      LETIMER0_UF_CB, LETIMER0_COMP0_CB, LETIMER0_COMP1_CB, GPIO_ODD_IRQ_CB,
      GPIO_EVEN_IRQ_CB>>

\* The order in which the main loop examines the event bits
Dispatch ==
    <<LETIMER0_UF_CB, LETIMER0_COMP0_CB, LETIMER0_COMP1_CB, GPIO_ODD_IRQ_CB,
      GPIO_EVEN_IRQ_CB, SI7021_READ_HUM_CB, SI7021_READ_TEMP_CB, SHTC3_READ_CB,
      SI7021_USER_CONFIRM>>

HandlerScript(e) == IF e = LETIMER0_UF_CB THEN UfScript ELSE <<>>

\* Handlers that end with EFM_ASSERT(!(get_scheduled_events() & own event))
AssertsOwnEvent ==
    {LETIMER0_UF_CB, LETIMER0_COMP0_CB, LETIMER0_COMP1_CB, SI7021_READ_HUM_CB,
     SI7021_READ_TEMP_CB}

CurReq == pc.script[pc.i]

AfterCheck(i) ==
    IF i < Len(Dispatch) THEN pc_at("check", <<>>, i + 1, 0)
    ELSE pc_at("loop", <<>>, 1, 0)

\* The driver prepares the cell its request points to (hum_bytes = 0, the
\* local data_to_write, the by-value parameter data) and calls i2c_start
DriverStore ==
    /\ MainAt("call") /\ pc.i <= Len(pc.script)
    /\ mem' = [mem EXCEPT ![CurReq.data] = CurReq.value]
    /\ gh' = [gh EXCEPT !.freed = @ \ {CurReq.data}]
    /\ pc' = [pc EXCEPT !.at = "start_wait"]
    /\ UNCHANGED <<lowest_energy_mode, event_scheduled, fatal, selected_em, entered,
                   pat, IEN, sm, hw, i2c_IF, RXDATA, wire, letimer_IF>>

\* A busy-wait that waits for both buses
BusFreeBoth(s) == \A b \in Buses : ~sm[b].busy

\* A busy-wait that does not wait
BusAlwaysFree(s) == TRUE

\* while (i2cx_state_machine->busy);
BusFree(s) == ~s.busy

StartWait ==
    /\ MainAt("start_wait")
    /\ BusFree(sm[CurReq.which_i2c])
    /\ pc' = [pc EXCEPT !.at = "start_block"]
    /\ UNCHANGED <<lowest_energy_mode, event_scheduled, fatal, selected_em, entered,
                   pat, IEN, sm, mem, hw, i2c_IF, RXDATA, wire, letimer_IF, gh>>

\* An i2c_start that takes no sleep block
StartNoBlock(t) == t

\* sleep_block_mode(I2C_EM) as called by i2c_start
StartBlockTable(t) == BlockTable(t, I2C_EM)

\* EFM_ASSERT(STATE == IDLE); sleep_block_mode(I2C_EM)
StartBlock ==
    /\ MainAt("start_block")
    /\ LET b == CurReq.which_i2c
           t == StartBlockTable(lowest_energy_mode)
       IN  IF hw[b] # "idle"
           THEN /\ fatal' = "start_not_idle"
                /\ UNCHANGED <<lowest_energy_mode, gh, pc>>
           ELSE /\ lowest_energy_mode' = t
                /\ fatal' = IF BlockAssertOk(t, I2C_EM) THEN "none" ELSE "block_bound"
                /\ gh' = [gh EXCEPT !.held[b] = @ + 1]
                /\ pc' = [pc EXCEPT !.at = "start_issue"]
    /\ UNCHANGED <<event_scheduled, selected_em, entered, pat, IEN, sm, mem, hw, i2c_IF,
                   RXDATA, wire, letimer_IF>>

\* The context i2c_start fills from the request
FillContext(r) ==
    [current_state |-> "initialize", which_i2c |-> r.which_i2c,
     device_address |-> r.device_address, register_address |-> r.register_address,
     num_bytes |-> r.num_bytes, finished_callback |-> r.finished_callback,
     comm_method |-> r.comm_method, busy |-> TRUE, data |-> r.data,
     byte_counter |-> U32(r.num_bytes), num_register_bytes |-> r.num_register_bytes,
     register_byte_counter |-> U32(r.num_register_bytes)]

\* The automatic objects whose lifetime ends when call i of script returns:
\* the parameter data of shtc3_i2c_write with that call, data_to_write of
\* si7021_i2c_open with its last call
ReleasedAt(script, i) ==
    {c \in {"shtc3_data"} : script[i].data = c}
    \cup {c \in {"data_to_write"} : script = SetupScript /\ i = Len(script)}

\* Fill the context, START, TXDATA = (device_address << 1) | I2C_W. The
\* return to the driver is a step of its own where it ends a lifetime.
StartIssue ==
    /\ MainAt("start_issue")
    /\ LET r == CurReq
           b == r.which_i2c
           k0 == [Ctx(b) EXCEPT !.sm = FillContext(r), !.wire = <<>>,
                                !.started = @ + 1, !.acc = 0, !.nacks = 0,
                                !.ubs = 0]
           k == TxData(CmdStart(k0), BitOr(r.device_address * 2, I2C_W))
       IN  Install(b, k, [gh EXCEPT !.req[b] = <<r>>])
    /\ pc' = IF ReleasedAt(pc.script, pc.i) = {}
             THEN [pc EXCEPT !.at = "call", !.i = @ + 1]
             ELSE [pc EXCEPT !.at = "return"]
    /\ UNCHANGED <<selected_em, entered, pat, IEN, i2c_IF, RXDATA, letimer_IF>>

\* What a released object holds once its storage is used again
Reused == <<222, 173, 190, 239>>

\* timer_delay(10); the driver returns. An object released while a
\* transaction still points to it holds what it held or what the next user of
\* the storage puts there.
DriverReturn ==
    /\ MainAt("return")
    /\ LET rel == ReleasedAt(pc.script, pc.i)
           live == {c \in rel : \E b \in Buses : sm[b].busy /\ sm[b].data = c}
       IN  /\ gh' = [gh EXCEPT !.freed = @ \cup rel]
           /\ \E over \in SUBSET live :
                 mem' = [c \in Cells |-> IF c \in over THEN Reused ELSE mem[c]]
    /\ pc' = [pc EXCEPT !.at = "call", !.i = @ + 1]
    /\ UNCHANGED <<lowest_energy_mode, event_scheduled, fatal, selected_em, entered,
                   pat, IEN, sm, hw, i2c_IF, RXDATA, wire, letimer_IF>>

\* A start-up that goes to the main loop without opening I2C1
SetupThenLoop(script) == pc_at("loop", <<>>, 1, 0)

\* app_peripheral_setup after si7021_i2c_open: shtc3_i2c_open, which opens
\* I2C1; any other caller returns to the main loop
AfterSetup(script) ==
    IF script = SetupScript THEN pc_at("i2c_open", <<>>, 1, 0)
    ELSE pc_at("loop", <<>>, 1, 0)

\* A bus reset that leaves the interrupts enabled
ResetKeepsMask(ien) == ien

\* i2cx->IEN = 0
ResetMask(ien) == {}

\* i2c_open up to the bus reset: clock, I2C_Init, routes, NVIC_EnableIRQ,
\* busy = false, IEN |= ACK | NACK | MSTOP | RXDATAV
I2cOpenInit ==
    /\ MainAt("i2c_open")
    /\ sm' = [sm EXCEPT ![pc.i].busy = FALSE]
    /\ IEN' = [IEN EXCEPT ![pc.i] = @ \cup I2cFlags]
    /\ hw' = [hw EXCEPT ![pc.i] = "enabled"]
    /\ pc' = [pc EXCEPT !.at = "bus_reset"]
    /\ UNCHANGED <<lowest_energy_mode, event_scheduled, fatal, selected_em, entered,
                   pat, mem, i2c_IF, RXDATA, wire, letimer_IF, gh>>

\* i2c_bus_reset up to its wait: IEN_state = IEN; IEN = 0; IFC = ~0;
\* CLEARTX; START; STOP
BusResetBegin ==
    /\ MainAt("bus_reset")
    /\ LET b == pc.i
           k == CmdStop(CmdStart(Ctx(b)))
       IN  /\ pc' = [pc EXCEPT !.at = "reset_wait", !.saved = IEN[b]]
           /\ IEN' = [IEN EXCEPT ![b] = ResetMask(@)]
           /\ i2c_IF' = [i2c_IF EXCEPT ![b] = {}]
           /\ hw' = [hw EXCEPT ![b] = k.hw]
           /\ wire' = [wire EXCEPT ![b] = k.wire]
    /\ UNCHANGED <<lowest_energy_mode, event_scheduled, fatal, selected_em, entered,
                   pat, sm, mem, RXDATA, letimer_IF, gh>>

\* while (!(IF & MSTOP)); IFC = ~0; ABORT; IEN = IEN_state; i2c_open returns
BusResetEnd ==
    /\ MainAt("reset_wait")
    /\ "MSTOP" \in i2c_IF[pc.i]
    /\ i2c_IF' = [i2c_IF EXCEPT ![pc.i] = {}]
    /\ hw' = [hw EXCEPT ![pc.i] = "idle"]
    /\ IEN' = [IEN EXCEPT ![pc.i] = pc.saved]
    /\ gh' = [gh EXCEPT !.opened = @ \cup {pc.i}]
    /\ pc' = IF pc.i = SI7021_WHICH_I2C THEN pc_at("call", SetupScript, 1, 0)
             ELSE pc_at("loop", <<>>, 1, 0)
    /\ UNCHANGED <<lowest_energy_mode, event_scheduled, fatal, selected_em, entered,
                   pat, sm, mem, RXDATA, wire, letimer_IF>>

\* The handler (or start-up) has made its calls: its closing assertion, then
\* back to the dispatch loop
ScriptEnd ==
    /\ MainAt("call") /\ pc.i > Len(pc.script)
    /\ IF pc.ret = 0
       THEN /\ pc' = AfterSetup(pc.script)
            /\ UNCHANGED fatal
       ELSE LET e == Dispatch[pc.ret] IN
            IF e \in AssertsOwnEvent /\ EventPending(event_scheduled, e)
            THEN fatal' = "event_pending" /\ UNCHANGED pc
            ELSE IF e = SI7021_USER_CONFIRM
                    /\ mem["user_settings_bytes"] # U32(SI7021_USER_SETTINGS)
            THEN fatal' = "user_settings" /\ UNCHANGED pc
            ELSE /\ pc' = AfterCheck(pc.ret)
                 /\ UNCHANGED fatal
    /\ UNCHANGED <<lowest_energy_mode, event_scheduled, selected_em, entered, pat, IEN,
                   sm, mem, hw, i2c_IF, RXDATA, wire, letimer_IF, gh>>

\* CORE_ENTER_CRITICAL(); if (!get_scheduled_events()) ... else
\* CORE_EXIT_CRITICAL()
LoopTop ==
    /\ MainAt("loop")
    /\ entered' = "not_called"
    /\ pc' = IF event_scheduled = 0 THEN pc_at("enter_sleep", <<>>, 1, 0)
             ELSE pc_at("check", <<>>, 1, 0)
    /\ UNCHANGED <<lowest_energy_mode, event_scheduled, fatal, selected_em, pat, IEN,
                   sm, mem, hw, i2c_IF, RXDATA, wire, letimer_IF, gh>>

\* enter_sleep(): the mode decision and the sleep instruction, or the return
\* and CORE_EXIT_CRITICAL() when EM0 or EM1 is blocked
LoopSleep ==
    /\ MainAt("enter_sleep")
    /\ entered' = enter_sleep_mode(lowest_energy_mode)
    /\ pc' = IF entered' = "return" THEN pc_at("check", <<>>, 1, 0)
             ELSE pc_at("asleep", <<>>, 1, 0)
    /\ UNCHANGED <<lowest_energy_mode, event_scheduled, fatal, selected_em, pat, IEN,
                   sm, mem, hw, i2c_IF, RXDATA, wire, letimer_IF, gh>>

\* A pending interrupt ends the sleep instruction; CORE_EXIT_CRITICAL()
Wake ==
    /\ ~Halted /\ pc.at = "asleep" /\ IrqPending
    /\ pc' = pc_at("check", <<>>, 1, 0)
    /\ UNCHANGED <<lowest_energy_mode, event_scheduled, fatal, selected_em, entered,
                   pat, IEN, sm, mem, hw, i2c_IF, RXDATA, wire, letimer_IF, gh>>

\* if (get_scheduled_events() & e) { remove_scheduled_event(e); handler(); }
MainCheckWith(g) ==
    /\ MainAt("check")
    /\ LET e == Dispatch[pc.i] IN
       IF ~EventPending(event_scheduled, e)
       THEN /\ pc' = AfterCheck(pc.i)
            /\ UNCHANGED <<event_scheduled, fatal>>
       ELSE IF e = LETIMER0_COMP0_CB
       THEN /\ fatal' = "comp0"
            /\ UNCHANGED <<event_scheduled, pc>>
       ELSE /\ event_scheduled' = remove_scheduled_event(event_scheduled, e)
            /\ pc' = pc_at("call", HandlerScript(e), 1, pc.i)
            /\ UNCHANGED fatal
    /\ UNCHANGED <<lowest_energy_mode, selected_em, entered, pat, IEN, sm, mem, hw,
                   i2c_IF, RXDATA, wire, letimer_IF>>
    /\ gh' = g

MainCheck == MainCheckWith(gh)

\* The addressed device acknowledges the byte on the bus; after the read
\* address it goes on to send its first byte
DevAck(b) ==
    /\ ~Halted /\ hw[b] \in {"tx", "txr"}
    /\ Len(wire[b]) < MaxWire /\ gh.ubs[b] <= MaxUB
    /\ i2c_IF' = [i2c_IF EXCEPT ![b] = @ \cup {"ACK"}]
    /\ hw' = [hw EXCEPT ![b] = IF hw[b] = "txr" THEN "rx" ELSE "hold"]
    /\ UNCHANGED <<lowest_energy_mode, event_scheduled, fatal, selected_em, entered,
                   pat, IEN, sm, mem, RXDATA, wire, letimer_IF, pc, gh>>

\* The device does not acknowledge the byte
DevNack(b) ==
    /\ ~Halted /\ hw[b] \in {"tx", "txr"} /\ gh.nacks[b] < MaxNacks
    /\ i2c_IF' = [i2c_IF EXCEPT ![b] = @ \cup {"NACK"}]
    /\ hw' = [hw EXCEPT ![b] = "hold"]
    /\ gh' = [gh EXCEPT !.nacks[b] = @ + 1]
    /\ UNCHANGED <<lowest_energy_mode, event_scheduled, fatal, selected_em, entered,
                   pat, IEN, sm, mem, RXDATA, wire, letimer_IF, pc>>

\* The device sends a byte: it is in RXDATA
DevByte(b, v) ==
    /\ ~Halted /\ hw[b] = "rx" /\ Len(wire[b]) < MaxWire
    /\ RXDATA' = [RXDATA EXCEPT ![b] = v]
    /\ i2c_IF' = [i2c_IF EXCEPT ![b] = @ \cup {"RXDATAV"}]
    /\ wire' = [wire EXCEPT ![b] = Append(@, Sym("RX", v))]
    /\ hw' = [hw EXCEPT ![b] = "rxfull"]
    /\ UNCHANGED <<lowest_energy_mode, event_scheduled, fatal, selected_em, entered,
                   pat, IEN, sm, mem, letimer_IF, pc, gh>>

\* The STOP condition has gone out: the bus is idle again
BusStop(b) ==
    /\ ~Halted /\ hw[b] = "stop"
    /\ i2c_IF' = [i2c_IF EXCEPT ![b] = @ \cup {"MSTOP"}]
    /\ hw' = [hw EXCEPT ![b] = "idle"]
    /\ UNCHANGED <<lowest_energy_mode, event_scheduled, fatal, selected_em, entered,
                   pat, IEN, sm, mem, RXDATA, wire, letimer_IF, pc, gh>>

\* I2C0_IRQHandler / I2C1_IRQHandler: int_flag = IF & IEN; IFC = int_flag;
\* i2c_isr
I2cIrq(b) ==
    /\ ~Halted /\ ~InCritical(pc) /\ i2c_IF[b] \cap IEN[b] # {}
    /\ \E ub \in UBBytes : Install(b, i2c_isr(Ctx(b), i2c_IF[b] \cap IEN[b], ub), gh)
    /\ i2c_IF' = [i2c_IF EXCEPT ![b] = @ \ IEN[b]]
    /\ UNCHANGED <<selected_em, entered, pat, IEN, RXDATA, letimer_IF, pc>>

\* LETIMER0 raises its underflow or its compare-1 flag
TimerFlags == {"COMP1", "UF"}

\* The counter starts at 0: it underflows, reloads COMP0, counts down past
\* COMP1 and underflows again
NextFlag(n) == IF n % 2 = 0 THEN "UF" ELSE "COMP1"

\* comp0Top: the underflow reloads CNT from COMP0, so the counter equals
\* COMP0 and the compare-0 flag rises with the underflow flag
TimerRaises(f) == IF f = "UF" THEN {"UF", "COMP0"} ELSE {f}

TimerFlag(f) ==
    /\ ~Halted /\ gh.ticks < MaxTicks
    /\ f = NextFlag(gh.ticks)
    /\ letimer_IF' = letimer_IF \cup TimerRaises(f)
    /\ gh' = [gh EXCEPT !.ticks = @ + 1]
    /\ UNCHANGED <<lowest_energy_mode, event_scheduled, fatal, selected_em, entered,
                   pat, IEN, sm, mem, hw, i2c_IF, RXDATA, wire, pc>>

\* LETIMER0_IRQHandler: int_flag = IF & IEN; IFC = int_flag
LetimerIrqWith(g) ==
    /\ ~Halted /\ ~InCritical(pc) /\ letimer_IF \cap LetimerIen # {}
    /\ LET int_flag == letimer_IF \cap LetimerIen
           e0 == IF "COMP0" \in int_flag
                 THEN add_scheduled_event(event_scheduled, LETIMER0_COMP0_CB)
                 ELSE event_scheduled
           e1 == IF "COMP1" \in int_flag
                 THEN add_scheduled_event(e0, LETIMER0_COMP1_CB)
                 ELSE e0
       IN  event_scheduled' = IF "UF" \in int_flag
                              THEN add_scheduled_event(e1, LETIMER0_UF_CB)
                              ELSE e1
    /\ letimer_IF' = letimer_IF \ LetimerIen
    /\ UNCHANGED <<lowest_energy_mode, fatal, selected_em, entered, pat, IEN, sm, mem,
                   hw, i2c_IF, RXDATA, wire, pc>>
    /\ gh' = g

LetimerIrq == LetimerIrqWith(gh)

\* Spec: the application, from app_peripheral_setup's call of
\* si7021_i2c_open. The timer is running and holds its block of LETIMER_EM
\* (letimer_start); the header that sets LETIMER_EM is not among the
\* sources: the timer is clocked from the ULFRCO (cmu.c), which runs down to
\* EM3, so the mode it keeps the system out of is EM4. Neither bus is open.
LetimerModes == {EM4}

Init ==
    /\ \E m \in LetimerModes : lowest_energy_mode = BlockTable(sleep_open_table, m)
    /\ event_scheduled = 0
    /\ fatal = "none"
    /\ selected_em = <<>>
    /\ entered = "not_called"
    /\ pat = PatOff
    /\ sm = [b \in Buses |-> sm_reset]
    /\ mem = [c \in Cells |-> Zero32]
    /\ hw = [b \in Buses |-> "off"]
    /\ i2c_IF = [b \in Buses |-> {}]
    /\ IEN = [b \in Buses |-> {}]
    /\ RXDATA = [b \in Buses |-> 0]
    /\ wire = [b \in Buses |-> <<>>]
    /\ letimer_IF = {}
    /\ pc = pc_at("i2c_open", <<>>, SI7021_WHICH_I2C, 0)
    /\ gh = gh_reset

Next ==
    \/ I2cOpenInit
    \/ BusResetBegin
    \/ BusResetEnd
    \/ DriverStore
    \/ StartWait
    \/ StartBlock
    \/ StartIssue
    \/ DriverReturn
    \/ ScriptEnd
    \/ LoopTop
    \/ LoopSleep
    \/ Wake
    \/ MainCheck
    \/ \E b \in Buses : DevAck(b)
    \/ \E b \in Buses : DevNack(b)
    \/ \E b \in Buses : \E v \in AppRxBytes : DevByte(b, v)
    \/ \E b \in Buses : BusStop(b)
    \/ \E b \in Buses : I2cIrq(b)
    \/ \E f \in TimerFlags : TimerFlag(f)
    \/ LetimerIrq

Spec == Init /\ [][Next]_vars

\* SpecBus: one caller makes one request of any shape on bus 0 and goes on
\* to the dispatch loop; no timer
InitBus ==
    /\ lowest_energy_mode = sleep_open_table
    /\ event_scheduled = 0
    /\ fatal = "none"
    /\ selected_em = <<>>
    /\ entered = "not_called"
    /\ pat = PatOff
    /\ sm = [b \in Buses |-> sm_reset]
    /\ mem = [c \in Cells |-> Zero32]
    /\ hw = [b \in Buses |-> "idle"]
    /\ i2c_IF = [b \in Buses |-> {}]
    /\ IEN = [b \in Buses |-> I2cFlags]
    /\ RXDATA = [b \in Buses |-> 0]
    /\ wire = [b \in Buses |-> <<>>]
    /\ letimer_IF = {}
    /\ \E r \in BusRequests : pc = pc_at("call", <<r>>, 1, 0)
    /\ gh = gh_reset

NextBus ==
    \/ DriverStore
    \/ StartWait
    \/ StartBlock
    \/ StartIssue
    \/ ScriptEnd
    \/ LoopTop
    \/ LoopSleep
    \/ Wake
    \/ MainCheck
    \/ \E b \in Buses : DevAck(b)
    \/ \E b \in Buses : DevNack(b)
    \/ \E b \in Buses : \E v \in RxBytes : DevByte(b, v)
    \/ \E b \in Buses : BusStop(b)
    \/ \E b \in Buses : I2cIrq(b)

SpecBus == InitBus /\ [][NextBus]_vars

(***************************************************************************)
(* SpecSched: the main context opens the scheduler, posts and clears       *)
(* events, each read-modify-write in two steps, while LETIMER0 interrupts  *)
(***************************************************************************)
\* The events the main context posts and clears here
SchedEvents == {LETIMER0_UF_CB, LETIMER0_COMP1_CB, SI7021_READ_HUM_CB, SHTC3_READ_CB}

\* scheduler_open: event_scheduled = 0
scheduler_open == 0

\* CORE_ENTER_CRITICAL(); load event_scheduled
SchedLoad(at, event) ==
    /\ MainAt("call")
    /\ pc' = [pc_at(at, <<>>, event, 0) EXCEPT !.reg = event_scheduled]
    /\ UNCHANGED <<lowest_energy_mode, event_scheduled, fatal, selected_em, entered,
                   pat, IEN, sm, mem, hw, i2c_IF, RXDATA, wire, letimer_IF, gh>>

\* store event_scheduled; CORE_EXIT_CRITICAL()
SchedStore ==
    /\ \/ MainAt("add_store")
          /\ event_scheduled' = add_scheduled_event(pc.reg, pc.i)
       \/ MainAt("remove_store")
          /\ event_scheduled' = remove_scheduled_event(pc.reg, pc.i)
       \/ MainAt("open_store")
          /\ event_scheduled' = scheduler_open
    /\ gh' = [gh EXCEPT !.last =
                 <<pc.at, IF IrqPending THEN "irq_waiting" ELSE "main", pc.i>>]
    /\ pc' = pc_at("call", <<>>, 1, 0)
    /\ UNCHANGED <<lowest_energy_mode, fatal, selected_em, entered, pat, IEN, sm, mem, hw,
                   i2c_IF, RXDATA, wire, letimer_IF>>

NextSched ==
    \/ SchedLoad("open_store", 0)
    \/ \E event \in SchedEvents : SchedLoad("add_store", event)
    \/ \E event \in SchedEvents : SchedLoad("remove_store", event)
    \/ SchedStore
    \/ \E f \in TimerFlags : TimerFlag(f)
    \/ LetimerIrq

SpecSched == InitIdle /\ [][NextSched]_vars

(***************************************************************************)
(* SpecLoop: the main loop with LETIMER0 raising its compare-1 flag; the   *)
(* posts and the handler invocations of LETIMER0_COMP1_CB are counted      *)
(***************************************************************************)
InitLoop ==
    /\ \E m \in LetimerModes : lowest_energy_mode = BlockTable(sleep_open_table, m)
    /\ event_scheduled = 0
    /\ fatal = "none"
    /\ selected_em = <<>>
    /\ entered = "not_called"
    /\ pat = PatOff
    /\ sm = [b \in Buses |-> sm_reset]
    /\ mem = [c \in Cells |-> Zero32]
    /\ hw = [b \in Buses |-> "idle"]
    /\ i2c_IF = [b \in Buses |-> {}]
    /\ IEN = [b \in Buses |-> I2cFlags]
    /\ RXDATA = [b \in Buses |-> 0]
    /\ wire = [b \in Buses |-> <<>>]
    /\ letimer_IF = {}
    /\ pc = pc_at("loop", <<>>, 1, 0)
    /\ gh = gh_reset

\* LETIMER0 reaches COMP1
TimerComp1 ==
    /\ ~Halted /\ gh.posts < MaxPosts
    /\ letimer_IF' = letimer_IF \cup {"COMP1"}
    /\ gh' = [gh EXCEPT !.posts = @ + 1]
    /\ UNCHANGED <<lowest_energy_mode, event_scheduled, fatal, selected_em, entered,
                   pat, IEN, sm, mem, hw, i2c_IF, RXDATA, wire, pc>>

\* The handler's add_scheduled_event(LETIMER0_COMP1_CB), counted: k posts
\* since the event was last cleared; a post that finds the event clear
\* opens a batch
LoopLetimerIrq ==
    LetimerIrqWith(
        IF "COMP1" \in letimer_IF
        THEN [gh EXCEPT !.k = @ + 1,
                        !.batches = IF EventPending(event_scheduled, LETIMER0_COMP1_CB)
                                    THEN @ ELSE @ + 1]
        ELSE gh)

\* The main loop's test, counted: a call of scheduled_letimer0_comp1_cb
LoopMainCheck ==
    MainCheckWith(
        IF pc'.at = "call" /\ pc'.ret # 0 /\ Dispatch[pc.i] = LETIMER0_COMP1_CB
        THEN [gh EXCEPT !.dispatches = @ + 1, !.lastk = gh.k, !.k = 0]
        ELSE gh)

NextLoop ==
    \/ LoopTop
    \/ LoopSleep
    \/ Wake
    \/ LoopMainCheck
    \/ ScriptEnd
    \/ TimerComp1
    \/ LoopLetimerIrq

SpecLoop == InitLoop /\ [][NextLoop]_vars

(***************************************************************************)
(* SpecIsr: a two-byte read or write with one register byte on bus 0, up   *)
(* to the caller's return to the main loop; the controller may also raise  *)
(* a flag the protocol does not expect                                     *)
(***************************************************************************)
IsrRequests ==
    {r \in BusRequests :
        /\ r.num_register_bytes = 1 /\ r.num_bytes = 2
        /\ r.value \in {U32(4660), Zero32}}

InitIsr ==
    /\ lowest_energy_mode = sleep_open_table
    /\ event_scheduled = 0
    /\ fatal = "none"
    /\ selected_em = <<>>
    /\ entered = "not_called"
    /\ pat = PatOff
    /\ sm = [b \in Buses |-> sm_reset]
    /\ mem = [c \in Cells |-> Zero32]
    /\ hw = [b \in Buses |-> "idle"]
    /\ i2c_IF = [b \in Buses |-> {}]
    /\ IEN = [b \in Buses |-> I2cFlags]
    /\ RXDATA = [b \in Buses |-> 0]
    /\ wire = [b \in Buses |-> <<>>]
    /\ letimer_IF = {}
    /\ \E r \in IsrRequests : pc = pc_at("call", <<r>>, 1, 0)
    /\ gh = gh_reset

\* An enabled flag of I2Cx->IF rises, whatever the state of the transfer
\* i2c_start has set up
SpuriousFlag(b, f) ==
    /\ ~Halted /\ gh.spur < MaxSpurious
    /\ gh.req[b] # <<>>
    /\ f \notin i2c_IF[b]
    /\ i2c_IF' = [i2c_IF EXCEPT ![b] = @ \cup {f}]
    /\ gh' = [gh EXCEPT !.spur = @ + 1]
    /\ UNCHANGED <<lowest_energy_mode, event_scheduled, fatal, selected_em, entered,
                   pat, IEN, sm, mem, hw, RXDATA, wire, letimer_IF, pc>>

NextIsr ==
    \/ DriverStore
    \/ StartWait
    \/ StartBlock
    \/ StartIssue
    \/ ScriptEnd
    \/ DevAck(0)
    \/ DevNack(0)
    \/ \E v \in RxBytes : DevByte(0, v)
    \/ BusStop(0)
    \/ I2cIrq(0)
    \/ \E f \in I2cFlags : SpuriousFlag(0, f)

SpecIsr == InitIsr /\ [][NextIsr]_vars

(***************************************************************************)
(* SpecTwo: one caller makes two requests in a row on bus 0, so that the   *)
(* second i2c_start finds the context the first transaction has left; the  *)
(* controller may raise a flag the protocol does not expect                *)
(***************************************************************************)
TwoRequests == {r \in IsrRequests : r.value = Zero32 \/ r.comm_method = "I2C_WRITE"}

InitTwo ==
    /\ lowest_energy_mode = sleep_open_table
    /\ event_scheduled = 0
    /\ fatal = "none"
    /\ selected_em = <<>>
    /\ entered = "not_called"
    /\ pat = PatOff
    /\ sm = [b \in Buses |-> sm_reset]
    /\ mem = [c \in Cells |-> Zero32]
    /\ hw = [b \in Buses |-> "idle"]
    /\ i2c_IF = [b \in Buses |-> {}]
    /\ IEN = [b \in Buses |-> I2cFlags]
    /\ RXDATA = [b \in Buses |-> 0]
    /\ wire = [b \in Buses |-> <<>>]
    /\ letimer_IF = {}
    /\ \E r1 \in TwoRequests, r2 \in TwoRequests : pc = pc_at("call", <<r1, r2>>, 1, 0)
    /\ gh = gh_reset

SpecTwo == InitTwo /\ [][NextIsr]_vars

(***************************************************************************)
(* SpecShtc: the SHTC3 measurement read on I2C1 for every six-byte         *)
(* response, its completion event, and the handler that parses the result  *)
(***************************************************************************)
ShtcRxBytes == {17, 34}     \* 0x11, 0x22

\* The bytes the device has sent, in the order received
RxOf(w) ==
    LET rx == SelectSeq(w, LAMBDA s : s[1] = "RX")
    IN  [i \in 1 .. Len(rx) |-> rx[i][2]]

\* parse_data: bytes[i] = (output_bytes >> (8*i)) & 0xff for i = 0..5;
\* output_bytes is a uint32_t, so for i = 4 and i = 5 the shift count is 32
\* and 40, which C leaves undefined: ub4 and ub5 are the bytes the build
\* then produces.
parse_data(w, ub4, ub5) ==
    [t |-> <<0, 0, w[4], w[3]>>, t_crc |-> U32(w[2]),
     rh |-> <<0, 0, w[1], ub4>>, rh_crc |-> U32(ub5)]

InitShtc ==
    /\ lowest_energy_mode = sleep_open_table
    /\ event_scheduled = 0
    /\ fatal = "none"
    /\ selected_em = <<>>
    /\ entered = "not_called"
    /\ pat = PatOff
    /\ sm = [b \in Buses |-> sm_reset]
    /\ mem = [c \in Cells |-> Zero32]
    /\ hw = [b \in Buses |-> "idle"]
    /\ i2c_IF = [b \in Buses |-> {}]
    /\ IEN = [b \in Buses |-> I2cFlags]
    /\ RXDATA = [b \in Buses |-> 0]
    /\ wire = [b \in Buses |-> <<>>]
    /\ letimer_IF = {}
    /\ pc = pc_at("call", <<shtc3_measure>>, 1, 0)
    /\ gh = gh_reset

\* shtc3_read_data_and_crc returns to its caller
ShtcCallerReturns == pc.ret = 0 /\ ScriptEnd

\* scheduled_shtc3_read_irq_cb: shtc3_app_get_temp_and_hum, parse_data
ShtcReadCb ==
    /\ MainAt("call") /\ pc.ret # 0 /\ Dispatch[pc.ret] = SHTC3_READ_CB
    /\ \E ub4 \in UBBytes, ub5 \in UBBytes :
          LET p == parse_data(mem["output_bytes"], ub4, ub5)
          IN  mem' = [mem EXCEPT !["t"] = p.t, !["t_crc"] = p.t_crc,
                                 !["rh"] = p.rh, !["rh_crc"] = p.rh_crc]
    /\ pc' = AfterCheck(pc.ret)
    /\ UNCHANGED <<lowest_energy_mode, event_scheduled, fatal, selected_em, entered,
                   pat, IEN, sm, hw, i2c_IF, RXDATA, wire, letimer_IF, gh>>

NextShtc ==
    \/ DriverStore
    \/ StartWait
    \/ StartBlock
    \/ StartIssue
    \/ ShtcCallerReturns
    \/ LoopTop
    \/ LoopSleep
    \/ Wake
    \/ MainCheck
    \/ ShtcReadCb
    \/ DevAck(1)
    \/ \E v \in ShtcRxBytes : DevByte(1, v)
    \/ BusStop(1)
    \/ I2cIrq(1)

SpecShtc == InitShtc /\ [][NextShtc]_vars

(***************************************************************************)
(* SpecDrain: the main loop with its interrupt sources. The program starts *)
(* the read of the user register and runs the loop, while the timer        *)
(* reaches COMP1 and a button is pressed, any number of times. Scheduling: *)
(* the device answers every byte and a pending enabled interrupt is taken  *)
(* (weak fairness); interrupts are spaced, a source raising its flag only  *)
(* when no interrupt is pending, and the main context, the only thread,    *)
(* executes between them (strong fairness).                                *)
(***************************************************************************)
Buttons == {GPIO_ODD_IRQ_CB}

DrainRequests == {si7021_read_user}

InitDrain ==
    /\ \E m \in LetimerModes : lowest_energy_mode = BlockTable(sleep_open_table, m)
    /\ event_scheduled = 0
    /\ fatal = "none"
    /\ selected_em = <<>>
    /\ entered = "not_called"
    /\ pat = PatOff
    /\ sm = [b \in Buses |-> sm_reset]
    /\ mem = [c \in Cells |-> Zero32]
    /\ hw = [b \in Buses |-> "idle"]
    /\ i2c_IF = [b \in Buses |-> {}]
    /\ IEN = [b \in Buses |-> I2cFlags]
    /\ RXDATA = [b \in Buses |-> 0]
    /\ wire = [b \in Buses |-> <<>>]
    /\ letimer_IF = {}
    /\ \E r \in DrainRequests : pc = pc_at("call", <<r>>, 1, 0)
    /\ gh = gh_reset

\* LETIMER0 reaches COMP1
DrainComp1 ==
    /\ ~Halted /\ ~IrqPending
    /\ letimer_IF' = letimer_IF \cup {"COMP1"}
    /\ UNCHANGED <<lowest_energy_mode, event_scheduled, fatal, selected_em, entered,
                   pat, IEN, sm, mem, hw, i2c_IF, RXDATA, wire, pc, gh>>

\* A button is pressed: the falling edge raises the
\* pin's interrupt flag
ButtonPress(e) ==
    /\ ~Halted /\ ~IrqPending
    /\ gh' = [gh EXCEPT !.gpio_IF = @ \cup {e}]
    /\ UNCHANGED <<lowest_energy_mode, event_scheduled, fatal, selected_em, entered,
                   pat, IEN, sm, mem, hw, i2c_IF, RXDATA, wire, letimer_IF, pc>>

\* GPIO_ODD_IRQHandler / GPIO_EVEN_IRQHandler: the handler clears every flag
\* raised and enabled and posts its button's event
GpioIrq(e) ==
    /\ ~Halted /\ ~InCritical(pc) /\ e \in gh.gpio_IF
    /\ event_scheduled' = add_scheduled_event(event_scheduled, e)
    /\ gh' = [gh EXCEPT !.gpio_IF = {}]
    /\ UNCHANGED <<lowest_energy_mode, fatal, selected_em, entered, pat, IEN, sm, mem,
                   hw, i2c_IF, RXDATA, wire, letimer_IF, pc>>

DrainMain ==
    \/ DriverStore
    \/ StartWait
    \/ StartBlock
    \/ StartIssue
    \/ ScriptEnd
    \/ LoopTop
    \/ LoopSleep
    \/ Wake
    \/ MainCheck

DrainDevice(b) ==
    \/ DevAck(b)
    \/ \E v \in AppRxBytes : DevByte(b, v)
    \/ BusStop(b)

NextDrain ==
    \/ DrainMain
    \/ \E b \in Buses : DrainDevice(b)
    \/ \E b \in Buses : I2cIrq(b)
    \/ DrainComp1
    \/ LetimerIrq
    \/ \E e \in Buttons : ButtonPress(e)
    \/ \E e \in Buttons : GpioIrq(e)

SpecDrain ==
    /\ InitDrain /\ [][NextDrain]_vars
    /\ SF_vars(DrainMain)
    /\ \A b \in Buses : WF_vars(DrainDevice(b)) /\ WF_vars(I2cIrq(b))
    /\ WF_vars(LetimerIrq)
    /\ \A e \in Buttons : WF_vars(GpioIrq(e))

(***************************************************************************)
(* SpecLive: one caller makes one request with 1..4 register bytes and     *)
(* 1..4 payload bytes on bus 0. The device acknowledges every byte, except *)
(* that it may refuse the read address up to MaxRetries times, and sends   *)
(* data while the master acknowledges. The core runs whenever it can: the  *)
(* main context is the only thread, a raised and enabled interrupt is      *)
(* taken, and the device answers every byte on the bus.                    *)
(***************************************************************************)
MaxRetries == 2

LiveValue == <<161, 178, 195, 212>>     \* 0xA1B2C3D4
LiveRxBytes == {86}                     \* 0x56

LiveRequests ==
    {Request(0, m, SI7021_DEVICE_ADDR, BusRegister, R, N, SI7021_READ_HUM_CB, "buf",
             IF m = "I2C_WRITE" THEN LiveValue ELSE Zero32) :
        m \in {"I2C_WRITE", "I2C_READ"}, R \in 1 .. 4, N \in 1 .. 4}

InitLive ==
    /\ lowest_energy_mode = sleep_open_table
    /\ event_scheduled = 0
    /\ fatal = "none"
    /\ selected_em = <<>>
    /\ entered = "not_called"
    /\ pat = PatOff
    /\ sm = [b \in Buses |-> sm_reset]
    /\ mem = [c \in Cells |-> Zero32]
    /\ hw = [b \in Buses |-> "idle"]
    /\ i2c_IF = [b \in Buses |-> {}]
    /\ IEN = [b \in Buses |-> I2cFlags]
    /\ RXDATA = [b \in Buses |-> 0]
    /\ wire = [b \in Buses |-> <<>>]
    /\ letimer_IF = {}
    /\ \E r \in LiveRequests : pc = pc_at("call", <<r>>, 1, 0)
    /\ gh = gh_reset

\* The device does not acknowledge the read address: it is not ready yet
DevNackRead(b) ==
    /\ ~Halted /\ hw[b] = "txr" /\ gh.nacks[b] < MaxRetries
    /\ i2c_IF' = [i2c_IF EXCEPT ![b] = @ \cup {"NACK"}]
    /\ hw' = [hw EXCEPT ![b] = "hold"]
    /\ gh' = [gh EXCEPT !.nacks[b] = @ + 1]
    /\ UNCHANGED <<lowest_energy_mode, event_scheduled, fatal, selected_em, entered,
                   pat, IEN, sm, mem, RXDATA, wire, letimer_IF, pc>>

LiveMain ==
    \/ DriverStore
    \/ StartWait
    \/ StartBlock
    \/ StartIssue
    \/ ScriptEnd
    \/ LoopTop
    \/ LoopSleep
    \/ Wake
    \/ MainCheck

LiveDevice(b) ==
    \/ DevAck(b)
    \/ \E v \in LiveRxBytes : DevByte(b, v)
    \/ BusStop(b)

NextLive ==
    \/ LiveMain
    \/ \E b \in Buses : LiveDevice(b)
    \/ \E b \in Buses : DevNackRead(b)
    \/ \E b \in Buses : I2cIrq(b)

SpecLive ==
    /\ InitLive /\ [][NextLive]_vars
    /\ WF_vars(LiveMain)
    /\ \A b \in Buses : WF_vars(LiveDevice(b)) /\ WF_vars(I2cIrq(b))


(***************************************************************************)
(* Claims about the sleep-mode arbiter (checked under SpecSleep)           *)
(***************************************************************************)
\* The shallowest mode with a nonzero counter, stated without the loop
Blocked(t) == {i \in Modes : t[i] # 0}
Shallowest(t) ==
    IF Blocked(t) = {} THEN EM4
    ELSE CHOOSE i \in Blocked(t) : \A j \in Blocked(t) : i <= j

\* The energy mode a sleep instruction enters
SleepDepth(e) ==
    CASE e = "EMU_EnterEM1" -> EM1
      [] e = "EMU_EnterEM2" -> EM2
      [] e = "EMU_EnterEM3" -> EM3

\* C7: for every assignment of the counters current_block_energy_mode
\* returns the smallest mode whose counter is nonzero, EM4 when all are
\* zero, never a mode shallower than the shallowest blocked one, and it
\* changes no counter.
C7_CurrentBlockShallowest ==
    [][ selected_em' # <<>> =>
          /\ selected_em' = <<Shallowest(lowest_energy_mode)>>
          /\ \A m \in Blocked(lowest_energy_mode) : selected_em'[1] <= m
          /\ (Blocked(lowest_energy_mode) = {} => selected_em'[1] = EM4)
          /\ lowest_energy_mode' = lowest_energy_mode ]_vars

C7_Witness ==
    /\ selected_em = <<EM2>>
    /\ lowest_energy_mode[EM0] = 0 /\ lowest_energy_mode[EM1] = 0
    /\ lowest_energy_mode[EM2] > 0 /\ lowest_energy_mode[EM4] > 0

\* C8: enter_sleep issues no sleep instruction when EM0 or EM1 is blocked,
\* otherwise EM1 when EM2 is blocked, otherwise EM2 when EM3 is blocked,
\* otherwise EM3; the mode entered is shallower than every blocked mode and
\* is never EM4.
C8_EnterSleepDepth ==
    entered # "not_called" =>
      LET t == lowest_energy_mode IN
        /\ (entered = "return") <=> (t[EM0] # 0 \/ t[EM1] # 0)
        /\ entered # "return" =>
             /\ SleepDepth(entered) = (IF Shallowest(t) = EM4 THEN EM3 ELSE Shallowest(t) - 1)
             /\ \A m \in Blocked(t) : SleepDepth(entered) < m
             /\ SleepDepth(entered) # EM4

C8_Witness ==
    /\ entered = "EMU_EnterEM1"
    /\ lowest_energy_mode[EM2] > 0 /\ lowest_energy_mode[EM3] > 0

\* C9: N blocks of a mode followed by N unblocks of it (c + N <= 4) return
\* its counter to c and leave the other counters unchanged; from c = 0 one
\* further unblock raises the negative-count assertion.
C9_BlockUnblockRoundTrip ==
    /\ (pat.on /\ pat.nb >= 1 /\ pat.nu = pat.nb /\ pat.start[pat.m] + pat.nb < BLOCK_LIMIT)
         => (lowest_energy_mode = pat.start /\ fatal = "none")
    /\ (pat.on /\ pat.nb >= 1 /\ pat.nu = pat.nb + 1 /\ pat.start[pat.m] = 0)
         => fatal = "unblock_negative"

C9_Witness ==
    /\ pat.on /\ pat.nb = 4 /\ pat.nu = 5 /\ pat.start[pat.m] = 0
    /\ fatal = "unblock_negative"

\* C10: every block counter is >= 0 in every reachable state, the state in
\* which the unmatched-unblock assertion is raised included.
C10_CountersNonNegative == \A m \in Modes : lowest_energy_mode[m] >= 0

\* C11: a sleep_block_mode call raises the fatal condition exactly when the
\* count it produces is 5 or more; a call producing a count of at most 4
\* raises nothing.
C11_BlockBound ==
    [][ \A m \in Modes :
          lowest_energy_mode'[m] = lowest_energy_mode[m] + 1 =>
              /\ (fatal' = "block_bound") <=> (lowest_energy_mode'[m] >= 5)
              /\ (lowest_energy_mode'[m] <= 4) => (fatal' = "none") ]_vars

C11_Witness ==
    /\ fatal = "block_bound"
    /\ \E m \in Modes : lowest_energy_mode[m] = 5

\* C12: with several users making matched block/unblock pairs, each counter
\* is the number of blocks still outstanding over all users, and
\* current_block_energy_mode returns the shallowest mode some user still
\* blocks (EM4 when none): one user's unblock lifts no other user's block.
Outstanding == {m \in Modes : \E u \in Users : gh.own[u][m] > 0}

C12_UsersCoexist ==
    /\ \A m \in Modes :
          lowest_energy_mode[m] = SumOver([u \in Users |-> gh.own[u][m]], Users)
    /\ selected_em # <<>> =>
          /\ Outstanding = {} => selected_em[1] = EM4
          /\ Outstanding # {} =>
                /\ selected_em[1] \in Outstanding
                /\ \A m \in Outstanding : selected_em[1] <= m

C12_Witness ==
    /\ selected_em = <<EM2>>
    /\ gh.last = <<"unblock", "B", EM1>>
    /\ gh.own["A"][EM2] = 1 /\ HeldBy("B") = 0 /\ HeldBy("A") = 1

\* C13: the main loop reaches the sleep instruction only with the pending
\* event set empty: between its emptiness check and the sleep instruction no
\* step changes the pending set or a block counter, and the mode entered is
\* the one the block counters of that moment select.
C13_SleepOnlyWhenIdle ==
    [][ /\ pc.at = "enter_sleep" =>
              /\ event_scheduled = 0
              /\ UNCHANGED <<event_scheduled, lowest_energy_mode>>
        /\ pc'.at = "asleep" =>
              /\ event_scheduled' = 0
              /\ entered' = enter_sleep_mode(lowest_energy_mode') ]_vars

\* The loop is asleep in EM1 while a transaction is in flight, and an
\* interrupt flag has been raised that no handler has served yet
C13_Witness ==
    /\ pc.at = "asleep" /\ IrqPending
    /\ event_scheduled = 0
    /\ entered = "EMU_EnterEM1"

\* C14: the main context's add_scheduled_event and remove_scheduled_event
\* are atomic towards interrupts: between the load and the store of the main
\* context's read-modify-write the pending set does not change, the store
\* applies the operation to the set as it is then, and a handler's post sets
\* its bits and keeps every other bit, so neither update is lost.
IrqEvents(F) ==
    {e \in {LETIMER0_COMP1_CB, LETIMER0_UF_CB} :
        \/ e = LETIMER0_COMP1_CB /\ "COMP1" \in F
        \/ e = LETIMER0_UF_CB /\ "UF" \in F}

C14_AtomicUpdates ==
    [][ /\ pc.at \in {"add_store", "remove_store"} =>
              /\ event_scheduled = pc.reg
              /\ pc'.at = pc.at => event_scheduled' = event_scheduled
        /\ pc.at = "add_store" /\ pc'.at = "call" =>
              event_scheduled' = BitOr(event_scheduled, pc.i)
        /\ pc.at = "remove_store" /\ pc'.at = "call" =>
              event_scheduled' = BitClear(event_scheduled, pc.i)
        /\ letimer_IF \cap LetimerIen # {} /\ letimer_IF' = letimer_IF \ LetimerIen =>
              \A e \in SchedEvents :
                  EventPending(event_scheduled', e) <=>
                      (EventPending(event_scheduled, e)
                          \/ e \in IrqEvents(letimer_IF \cap LetimerIen))
      ]_vars

\* The timer interrupt was raised while the main context was clearing the
\* humidity event; afterwards the underflow event is posted and the humidity
\* event is clear
C14_Witness ==
    /\ gh.last = <<"remove_store", "irq_waiting", SI7021_READ_HUM_CB>>
    /\ pc.at = "call" /\ letimer_IF \cap LetimerIen = {}
    /\ EventPending(event_scheduled, LETIMER0_UF_CB)
    /\ ~EventPending(event_scheduled, SI7021_READ_HUM_CB)
    /\ EventPending(event_scheduled, SHTC3_READ_CB)

\* C16: remove_scheduled_event(E) leaves E clear and every other bit as it
\* was, add_scheduled_event(E) leaves E set and every other bit as it was,
\* and scheduler_open leaves the pending set empty.
Bits == 0..8

Bit(ev, n) == (ev \div (2 ^ n)) % 2

C16_SchedulerFrame ==
    [][ /\ pc.at = "remove_store" /\ pc'.at = "call" =>
              \A n \in Bits :
                  Bit(event_scheduled', n) =
                      IF pc.i = 2 ^ n THEN 0 ELSE Bit(event_scheduled, n)
        /\ pc.at = "add_store" /\ pc'.at = "call" =>
              \A n \in Bits :
                  Bit(event_scheduled', n) =
                      IF pc.i = 2 ^ n THEN 1 ELSE Bit(event_scheduled, n)
        /\ pc.at = "open_store" /\ pc'.at = "call" =>
              \A n \in Bits : Bit(event_scheduled', n) = 0
      ]_vars

\* An event was cleared while two others stayed pending
C16_Witness ==
    /\ gh.last = <<"remove_store", "main", LETIMER0_COMP1_CB>>
    /\ event_scheduled = BitOr(LETIMER0_UF_CB, SHTC3_READ_CB)

\* C15: however many times LETIMER0_COMP1_CB is posted while it is pending,
\* the main loop calls its handler once for those posts: the event is
\* pending exactly when posts have been made since it was last cleared, and
\* the handler has been called once per batch of posts already cleared.
C15_OneDispatchPerBatch ==
    LET pending == EventPending(event_scheduled, LETIMER0_COMP1_CB) IN
    /\ pending <=> gh.k >= 1
    /\ gh.dispatches = gh.batches - (IF pending THEN 1 ELSE 0)

\* Two posts were made before the main loop cleared the event, and the
\* handler has run once
C15_Witness ==
    /\ gh.lastk = 2 /\ gh.batches = 1 /\ gh.dispatches = 1
    /\ gh.posts = 2 /\ letimer_IF = {}
    /\ pc.at = "loop"

\* The interrupt handler of bus 0 runs, from a state without fatal condition
IsrRuns == fatal = "none" /\ i2c_IF[0] # {} /\ i2c_IF'[0] = {}

\* The handler stops at its assertion: no command, no byte, no state change
IsrHalts ==
    /\ fatal' # "none"
    /\ wire'[0] = wire[0] /\ sm'[0] = sm[0] /\ mem' = mem
    /\ event_scheduled' = event_scheduled

C18_RxOutsideReadFatal ==
    [][ IsrRuns /\ i2c_IF[0] = {"RXDATAV"} /\ sm[0].current_state # "read_data"
          => IsrHalts ]_vars

\* The handler of bus b runs with stop-detected among its flags
StopHandled(b) == "MSTOP" \in i2c_IF[b] /\ i2c_IF'[b] = {}

\* C19: nothing but a handled stop-detected ends a transaction: only that
\* step clears a bus's busy flag or releases a block of I2C_EM, a NACK of the
\* read address is answered by sending the address again, and an i2c_start
\* that finds its bus busy does not advance. A transaction whose
\* stop-detected never comes therefore keeps all three for ever.
C19_NoTimeout ==
    [][ /\ \A b \in Buses :
              /\ sm[b].busy /\ ~sm'[b].busy => StopHandled(b)
              /\ gh'.held[b] < gh.held[b] => StopHandled(b)
              /\ /\ fatal = "none" /\ i2c_IF[b] = {"NACK"} /\ i2c_IF'[b] = {}
                 /\ sm[b].current_state = "request_read"
                 => /\ sm'[b] = sm[b] /\ fatal' = "none"
                    /\ hw'[b] = "txr"
        /\ lowest_energy_mode'[I2C_EM] < lowest_energy_mode[I2C_EM] =>
              \E b \in Buses : StopHandled(b)
        /\ pc.at = "start_wait" /\ sm[CurReq.which_i2c].busy => pc' = pc ]_vars

\* scheduled_letimer0_uf_cb waits in its second i2c_start on bus 0 while
\* the humidity read, its read address refused, is sending it again
C19_Witness ==
    /\ pc.at = "start_wait" /\ pc.script = UfScript /\ pc.i = 2
    /\ sm[0].busy /\ sm[0].current_state = "request_read"
    /\ gh.nacks[0] >= 1 /\ hw[0] = "txr" /\ i2c_IF[0] = {}
    /\ lowest_energy_mode[I2C_EM] >= 1

\* C20: while a transaction is in flight, from i2c_start until its
\* stop-detected has been handled, the object its data pointer refers to has
\* not been released.
C20_BufferOutlivesTransaction ==
    \A b \in Buses : sm[b].busy => sm[b].data \notin gh.freed

(***************************************************************************)
(* Claims about the transaction engine                                     *)
(***************************************************************************)
Started(b) == gh.req[b] # <<>>
Req(b) == gh.req[b][1]
Posted(b) == gh.fin[Req(b).finished_callback].posted

IsPrefix(s, t) == Len(s) <= Len(t) /\ \A i \in 1 .. Len(s) : s[i] = t[i]

\* The n low-order bytes of a 32-bit value, most significant first
LowBytes(w, n) == [i \in 1 .. n |-> w[4 - n + i]]

TxSyms(bytes) == [i \in 1 .. Len(bytes) |-> Sym("TX", bytes[i])]

\* C1: on each bus at most one transaction is between its START and the
\* post of its completion event, a transaction in flight has busy set, and
\* i2c_start gets past its wait (and so fills the context and issues START)
\* only when the bus has no transaction in flight and busy is false.
C1_OneTransactionPerBus ==
    /\ \A b \in Buses : gh.started[b] <= 1 /\ (gh.started[b] = 1 => sm[b].busy)
    /\ pc.at \in {"start_block", "start_issue"} =>
         /\ ~sm[CurReq.which_i2c].busy
         /\ gh.started[CurReq.which_i2c] = 0

C1_Witness ==
    /\ pc.at = "start_issue" /\ pc.script = SetupScript /\ pc.i = 2
    /\ gh.req[0] = <<si7021_write_user>>
    /\ wire[0][Len(wire[0])] = Sym("STOP", 0)

\* C2: while a transaction is in flight on either bus the block counter of
\* I2C_EM is at least 1, and a sleep entered with a transaction in flight is
\* EM1, never EM2 or EM3.
C2_BlockedWhileInFlight ==
    (\E b \in Buses : gh.started[b] = 1) =>
        /\ lowest_energy_mode[I2C_EM] >= 1
        /\ pc.at = "asleep" => entered = "EMU_EnterEM1"

C2_Witness ==
    /\ pc.at = "asleep" /\ entered = "EMU_EnterEM1"
    /\ gh.started[0] = 1 /\ lowest_energy_mode[I2C_EM] = 1

\* C3: when the main loop enters the handler of a completion event, the
\* transaction that posted it had stored all its requested bytes (remaining
\* counter 0) and had released the sleep block its i2c_start took.
C3_CompleteBeforeHandler ==
    \A j \in 6 .. 9 :
        (pc.at = "call" /\ pc.i = 1 /\ pc.ret = j) =>
            LET f == gh.fin[Dispatch[j]] IN
                /\ f.posted /\ f.method = "I2C_READ"
                /\ IsZero32(f.left) /\ f.acc = f.n
                /\ f.rel

C3_Witness ==
    /\ pc.at = "call" /\ pc.i = 1 /\ pc.ret = 8
    /\ gh.fin[SHTC3_READ_CB].acc = 6 /\ gh.fin[SHTC3_READ_CB].rel
    /\ lowest_energy_mode[I2C_EM] = 0

\* C4: a write with R in 1..4 register bytes and N in 1..4 payload bytes
\* puts on the bus START, (device_address << 1) | 0, the R register bytes most
\* significant first, the N payload bytes most significant first, STOP, in
\* that order and nothing else, and its completion event is posted only
\* after the STOP has gone out.
ExpectedWrite(r) ==
    <<Sym("START", 0), Sym("TX", 2 * r.device_address)>>
    \o TxSyms(LowBytes(r.register_address, r.num_register_bytes))
    \o TxSyms(LowBytes(r.value, r.num_bytes))
    \o <<Sym("STOP", 0)>>

C4_WriteSequence ==
    \A b \in Buses :
        (Started(b) /\ Req(b).comm_method = "I2C_WRITE"
            /\ Req(b).num_register_bytes \in 1 .. 4 /\ Req(b).num_bytes \in 1 .. 4) =>
            /\ IsPrefix(wire[b], ExpectedWrite(Req(b)))
            /\ Posted(b) => (wire[b] = ExpectedWrite(Req(b)) /\ hw[b] = "idle")
            /\ EventPending(event_scheduled, Req(b).finished_callback) => Posted(b)

C4_Witness ==
    /\ Started(0) /\ Posted(0) /\ Req(0).comm_method = "I2C_WRITE"
    /\ wire[0] = <<Sym("START", 0), Sym("TX", 128), Sym("TX", 195), Sym("TX", 230),
                   Sym("TX", 18), Sym("TX", 52), Sym("STOP", 0)>>

\* C5: a read with R in 1..4 register bytes and N payload bytes puts on the
\* bus START, address + W, the register bytes, repeated START, address + R,
\* then exactly N received bytes, each but the last ACKed, the N-th NACKed
\* and followed by STOP.
ClaimedRead(r, bytes) ==
    <<Sym("START", 0), Sym("TX", 2 * r.device_address)>>
    \o TxSyms(LowBytes(r.register_address, r.num_register_bytes))
    \o <<Sym("RSTART", 0), Sym("TX", 2 * r.device_address + 1)>>
    \o [i \in 1 .. 2 * r.num_bytes |->
          IF i % 2 = 1 THEN Sym("RX", bytes[(i + 1) \div 2])
          ELSE IF i = 2 * r.num_bytes THEN Sym("MNACK", 0) ELSE Sym("MACK", 0)]
    \o <<Sym("STOP", 0)>>

C5_ReadNacksLastByte ==
    \A b \in Buses :
        (Started(b) /\ Req(b).comm_method = "I2C_READ"
            /\ Req(b).num_register_bytes \in 1 .. 4
            /\ Posted(b) /\ gh.nacks[b] = 0) =>
            \E bytes \in [1 .. Req(b).num_bytes -> RxBytes] :
                wire[b] = ClaimedRead(Req(b), bytes)

\* C6: after an N-byte read (N in 1..4) into a destination that held 0, the
\* destination is the big-endian value of the first N bytes received.
BigEndian(bytes, n) == [i \in 1 .. 4 |-> IF i <= 4 - n THEN 0 ELSE bytes[i - (4 - n)]]

C6_ReadBigEndian ==
    \A b \in Buses :
        (Started(b) /\ Req(b).comm_method = "I2C_READ" /\ Req(b).num_bytes \in 1 .. 4
            /\ Req(b).value = Zero32 /\ Posted(b)) =>
            /\ Len(RxOf(wire[b])) >= Req(b).num_bytes
            /\ mem[Req(b).data] = BigEndian(RxOf(wire[b]), Req(b).num_bytes)

(***************************************************************************)
(* Claims about the requests, the start-up order and the engine's steps    *)
(***************************************************************************)
\* C21: every request the sensor drivers pass to i2c_start has 1 to 4
\* payload bytes and 0 to 4 register-address bytes.
C21_RequestLengthsInRange ==
    \A b \in Buses :
        gh.req[b] # <<>> =>
            /\ gh.req[b][1].num_bytes \in 1 .. 4
            /\ gh.req[b][1].num_register_bytes \in 0 .. 4

\* C22: a call of i2c_start is made, and a transaction is started, only on
\* a bus whose i2c_open has returned; the handler of the underflow event does
\* not run while a bus is still closed, although the event may be posted then.
C22_OpenBeforeStart ==
    /\ pc.at \in {"start_wait", "start_block", "start_issue", "return"} =>
          CurReq.which_i2c \in gh.opened
    /\ \A b \in Buses : gh.req[b] # <<>> => b \in gh.opened
    /\ pc.script = UfScript => gh.opened = Buses

\* The underflow event is already posted, I2C1 is still closed, and
\* start-up starts its second transaction on I2C0
C22_Witness ==
    /\ pc.at = "start_issue" /\ pc.script = SetupScript /\ pc.i = 2
    /\ EventPending(event_scheduled, LETIMER0_UF_CB)
    /\ gh.opened = {SI7021_WHICH_I2C}


\* A statement of the main context: start-up, i2c_open, the drivers'
\* calls of i2c_start, the main loop and its dispatch
MainStep ==
    \/ I2cOpenInit \/ BusResetBegin \/ BusResetEnd
    \/ DriverStore \/ StartWait \/ StartBlock \/ StartIssue \/ DriverReturn
    \/ ScriptEnd \/ LoopTop \/ LoopSleep \/ MainCheck

\* The main context is running: not halted, not preempted, not in the sleep
\* instruction of the main loop
Running == ~Halted /\ (~IrqPending \/ InCritical(pc)) /\ pc.at # "asleep"

\* The statement the main context is at cannot complete
Stuck == ~ENABLED MainStep

StartSpins == pc.at = "start_wait" /\ sm[CurReq.which_i2c].busy
ResetSpins == pc.at = "reset_wait" /\ "MSTOP" \notin i2c_IF[pc.i]

\* C23 as stated: outside the sleep instruction of the main loop, the main
\* context waits only in i2c_start's busy-wait; i2c_open with its bus reset,
\* the scheduler operations and sleep_block_mode/sleep_unblock_mode never wait
\* for a hardware flag or an interrupt.
C23_OnlyStartBlocks ==
    Running => (Stuck <=> StartSpins)

\* C23 amended: outside the sleep instruction, the main context waits in
\* exactly two places: i2c_start's busy-wait while the bus is busy, and the
\* bus reset of i2c_open while stop-detected is not yet raised.
C23_StartAndResetBlock ==
    Running => (Stuck <=> (StartSpins \/ ResetSpins))

C23_Witness ==
    /\ Running /\ ResetSpins /\ Stuck
    /\ hw[pc.i] = "stop" /\ IEN[pc.i] = {} /\ pc.i \notin gh.opened


\* C30: the bus reset of i2c_open masks every interrupt enable of the bus,
\* clears the flags, issues START then STOP, waits for stop-detected with the
\* mask in place, clears the flags again and restores the mask it found; the
\* state machine of the bus is not run meanwhile, the reset's own steps post
\* no event and change no block counter, and the bus is left not busy.
C30_BusResetFrame ==
    [][/\ (pc.at = "bus_reset" /\ pc'.at = "reset_wait") =>
             /\ IEN'[pc.i] = {} /\ i2c_IF'[pc.i] = {}
             /\ wire'[pc.i] = wire[pc.i] \o <<Sym("START", 0), Sym("STOP", 0)>>
             /\ event_scheduled' = event_scheduled
             /\ lowest_energy_mode' = lowest_energy_mode
             /\ sm' = sm
       /\ (pc.at = "reset_wait") =>
             /\ i2c_IF[pc.i] \cap IEN[pc.i] = {}
             /\ sm'[pc.i] = sm[pc.i]
             /\ gh'.held[pc.i] = 0 /\ gh'.started[pc.i] = 0
             /\ IF pc'.at = "reset_wait" THEN IEN'[pc.i] = {}
                ELSE /\ "MSTOP" \in i2c_IF[pc.i]
                     /\ i2c_IF'[pc.i] = {}
                     /\ IEN'[pc.i] = I2cFlags
                     /\ ~sm'[pc.i].busy
                     /\ event_scheduled' = event_scheduled
                     /\ lowest_energy_mode' = lowest_energy_mode
                     /\ fatal' = "none"]_vars

C30_Witness ==
    /\ pc.at = "loop" /\ gh.opened = Buses /\ fatal = "none"
    /\ wire[1] = <<Sym("START", 0), Sym("STOP", 0)>>
    /\ IEN[1] = I2cFlags /\ i2c_IF[1] = {} /\ ~sm[1].busy
    /\ lowest_energy_mode = BlockTable(sleep_open_table, EM4)


\* The interrupt handler of bus b runs with stop-detected as its only
\* enabled flag while the context is in send_stop
StopStep(b) ==
    /\ sm[b].current_state = "send_stop"
    /\ i2c_IF[b] \cap IEN[b] = {"MSTOP"}
    /\ "MSTOP" \notin i2c_IF'[b]

\* C24: stop-detected handled in send_stop moves the context to end_process,
\* posts the transaction's completion event, clears busy and then takes one
\* off the I2C_EM block counter, once per transaction; no other event bit, no
\* other block counter, no other field of the context, no memory cell and
\* nothing of the other bus changes.
C24_StopCompletes ==
    [][\A b \in Buses : StopStep(b) =>
          /\ sm'[b] = [sm[b] EXCEPT !.current_state = "end_process", !.busy = FALSE]
          /\ sm[b].busy
          /\ event_scheduled' = BitOr(event_scheduled, sm[b].finished_callback)
          /\ lowest_energy_mode' =
                [lowest_energy_mode EXCEPT ![I2C_EM] = @ - 1]
          /\ gh.started[b] = 1 /\ gh'.started[b] = 0
          /\ gh.held[b] = 1 /\ gh'.held[b] = 0
          /\ gh'.fin[sm[b].finished_callback].posted
          /\ gh'.fin[sm[b].finished_callback].rel
          /\ mem' = mem /\ fatal' = "none" /\ pc' = pc
          /\ \A o \in Buses \ {b} :
                /\ sm'[o] = sm[o] /\ hw'[o] = hw[o] /\ wire'[o] = wire[o]
                /\ i2c_IF'[o] = i2c_IF[o] /\ IEN'[o] = IEN[o]
                /\ RXDATA'[o] = RXDATA[o]
                /\ gh'.held[o] = gh.held[o] /\ gh'.started[o] = gh.started[o]]_vars

\* A transaction on I2C0 has just completed while one on I2C1 is in flight:
\* its event is pending and one block of I2C_EM is left
C24_Witness ==
    /\ sm[0].current_state = "end_process" /\ ~sm[0].busy
    /\ sm[0].finished_callback = SI7021_READ_TEMP_CB
    /\ EventPending(event_scheduled, SI7021_READ_TEMP_CB)
    /\ sm[1].busy /\ gh.held[1] = 1 /\ gh.held[0] = 0
    /\ lowest_energy_mode[I2C_EM] = 1
    /\ fatal = "none"


\* C25: with the bus not busy, i2c_start first takes its block of I2C_EM,
\* then fills the context (busy, initialize, both byte counters at the
\* requested lengths) and issues START and the byte (device_address << 1) | 0;
\* it returns with the transaction in flight, no interrupt of it handled.
C25_StartOrder ==
    [][/\ (pc.at = "start_block" /\ pc'.at = "start_issue") =>
             LET b == CurReq.which_i2c IN
             /\ ~sm[b].busy /\ sm'[b] = sm[b]
             /\ lowest_energy_mode' = [lowest_energy_mode EXCEPT ![I2C_EM] = @ + 1]
             /\ wire'[b] = wire[b] /\ hw'[b] = "idle"
       /\ (pc.at = "start_issue" /\ pc' # pc) =>
             LET r == CurReq
                 b == r.which_i2c
             IN
             /\ lowest_energy_mode[I2C_EM] >= 1 /\ gh.held[b] = 1
             /\ ~sm[b].busy /\ hw[b] = "idle"
             /\ sm'[b].busy /\ sm'[b].current_state = "initialize"
             /\ sm'[b].byte_counter = U32(r.num_bytes)
             /\ sm'[b].register_byte_counter = U32(r.num_register_bytes)
             /\ sm'[b].data = r.data /\ sm'[b].comm_method = r.comm_method
             /\ wire'[b] = <<Sym("START", 0), Sym("TX", 2 * r.device_address)>>
             /\ hw'[b] = "tx"
             /\ lowest_energy_mode' = lowest_energy_mode
             /\ i2c_IF' = i2c_IF /\ event_scheduled' = event_scheduled
             /\ gh'.acc[b] = 0
             /\ pc'.at \in {"call", "return"}]_vars

C25_Witness ==
    /\ pc.at = "call" /\ pc.i = 2
    /\ sm[0].busy /\ sm[0].current_state = "initialize"
    /\ sm[0].num_register_bytes = 0 /\ sm[0].byte_counter = U32(4)
    /\ wire[0] = <<Sym("START", 0), Sym("TX", 2 * SI7021_DEVICE_ADDR)>>
    /\ i2c_IF[0] = {} /\ lowest_energy_mode[I2C_EM] = 1


\* The interrupt handler of bus b runs with NACK as its only enabled flag
\* while the context is in request_read
NackStep(b) ==
    /\ sm[b].current_state = "request_read"
    /\ i2c_IF[b] \cap IEN[b] = {"NACK"}
    /\ "NACK" \notin i2c_IF'[b]

\* C26: a NACK handled in request_read issues a repeated START and the byte
\* (device_address << 1) | 1 and changes nothing else: the context with its
\* state, counters and busy flag, the destination buffer, the pending events
\* and the block counters are as before, whatever the number of NACKs so far.
C26_NackResendsReadAddress ==
    [][\A b \in Buses : NackStep(b) =>
          /\ wire'[b] = wire[b] \o <<Sym("RSTART", 0),
                                     Sym("TX", 2 * sm[b].device_address + 1)>>
          /\ hw'[b] = "txr"
          /\ sm' = sm /\ sm[b].busy
          /\ mem' = mem
          /\ event_scheduled' = event_scheduled
          /\ lowest_energy_mode' = lowest_energy_mode
          /\ fatal' = "none"]_vars

\* The read address has gone out again after the second NACK in a row
C26_Witness ==
    /\ gh.nacks[0] = 2 /\ hw[0] = "txr" /\ i2c_IF[0] = {}
    /\ sm[0].current_state = "request_read" /\ sm[0].busy
    /\ Len(wire[0]) >= 6
    /\ SubSeq(wire[0], Len(wire[0]) - 5, Len(wire[0])) =
          <<Sym("RSTART", 0), Sym("TX", 2 * SI7021_DEVICE_ADDR + 1),
            Sym("RSTART", 0), Sym("TX", 2 * SI7021_DEVICE_ADDR + 1),
            Sym("RSTART", 0), Sym("TX", 2 * SI7021_DEVICE_ADDR + 1)>>


\* The caller is about to make its request; the request's transaction has
\* ended with its event posted
Requested == pc.at = "call" /\ pc.i = 1 /\ pc.ret = 0 /\ pc.script # <<>>
Completed ==
    /\ gh.req[0] # <<>>
    /\ sm[0].current_state = "end_process" /\ ~sm[0].busy
    /\ gh.fin[gh.req[0][1].finished_callback].posted
    /\ fatal = "none"

\* C27: a request with 1..4 register bytes and 1..4 payload bytes, read or
\* write, on an open idle bus is completed: if the device acknowledges every
\* byte after finitely many NACKs of the read address and supplies the bytes
\* of a read, and raised interrupts are handled, the context reaches
\* end_process with busy false and the completion event posted.
C27_TransactionCompletes == Requested ~> Completed

C27_Witness ==
    /\ Completed /\ gh.nacks[0] = MaxRetries
    /\ gh.req[0][1].comm_method = "I2C_READ"
    /\ gh.req[0][1].num_bytes = 4 /\ gh.req[0][1].num_register_bytes = 4
    /\ EventPending(event_scheduled, SI7021_READ_HUM_CB)


\* C28: in a read with no register-address bytes the first ACK leads straight
\* to the repeated START: nothing but the write address is transmitted before
\* it, and reception starts with the byte counter at the requested length.
C28_ReadWithoutRegister ==
    \A b \in Buses :
        (Started(b) /\ Req(b).comm_method = "I2C_READ"
            /\ Req(b).num_register_bytes = 0 /\ sm[b].busy
            /\ sm[b].current_state \in {"request_read", "read_data"}) =>
            /\ Len(wire[b]) >= 3 /\ wire[b][3] = Sym("RSTART", 0)
            /\ RxOf(wire[b]) = <<>> => sm[b].byte_counter = U32(Req(b).num_bytes)

\* C29: a write with no register-address bytes and 1..4 payload bytes puts
\* START, the write address, the payload bytes most significant first and
\* STOP on the bus, and its byte counter stays within 0..N.
C29_WriteWithoutRegister ==
    \A b \in Buses :
        (Started(b) /\ Req(b).comm_method = "I2C_WRITE"
            /\ Req(b).num_register_bytes = 0 /\ Req(b).num_bytes \in 1 .. 4) =>
            /\ IsPrefix(wire[b], ExpectedWrite(Req(b)))
            /\ Posted(b) => wire[b] = ExpectedWrite(Req(b))
            /\ sm[b].busy =>
                  /\ Low24(sm[b].byte_counter) <= Req(b).num_bytes
                  /\ sm[b].byte_counter[1] = 0
            /\ gh.ubs[b] = 0


(***************************************************************************)
(* Claims about the two buses, the drivers and the main loop               *)
(***************************************************************************)
\* The interrupt handler of bus b runs
IrqStep(b) ==
    /\ i2c_IF[b] \cap IEN[b] # {}
    /\ i2c_IF'[b] = i2c_IF[b] \ IEN[b]
    /\ pc' = pc /\ IEN' = IEN

\* i2c_start fills the context of bus b and issues START
IssueStep(b) ==
    pc.at = "start_issue" /\ pc' # pc /\ CurReq.which_i2c = b

\* C31: the handler of one bus and an i2c_start on one bus leave the whole
\* context of the other bus as it was, and i2c_start goes past its busy-wait
\* as soon as its own bus is not busy, whatever the other bus is doing.
C31_BusesIndependent ==
    /\ [](Running /\ pc.at = "start_wait" /\ ~sm[CurReq.which_i2c].busy
            => ENABLED StartWait)
    /\ [][\A b \in Buses : (IrqStep(b) \/ IssueStep(b)) =>
              \A o \in Buses \ {b} : sm'[o] = sm[o]]_vars

\* i2c_start on I2C1 is past its busy-wait while I2C0 is in the middle of a
\* read: I2C0's context is unchanged by the start on I2C1
C31_Witness ==
    /\ pc.at = "call" /\ pc.script = UfScript /\ pc.i = 4
    /\ sm[1].busy /\ sm[1].current_state = "initialize"
    /\ sm[0].busy /\ sm[0].current_state = "read_data"
    /\ sm[0].finished_callback = SI7021_READ_TEMP_CB
    /\ sm[0].data = "temp_bytes"


\* C32: from the busy test of i2c_start to the end of its context fill no
\* interrupt handler of the same bus runs.
C32_StartProtected ==
    [][\A b \in Buses :
          IrqStep(b) =>
              ~(pc.at \in {"start_block", "start_issue"} /\ CurReq.which_i2c = b)]_vars


\* The handler of the SHTC3 completion event has run parse_data
ShtcParsed ==
    /\ Started(1) /\ Posted(1) /\ Req(1) = shtc3_measure
    /\ pc.at \in {"check", "loop"} /\ pc.script = <<>>
    /\ ~EventPending(event_scheduled, SHTC3_READ_CB)
    /\ pc.at = "check" => pc.i > 8

\* C33: after the six-byte measurement read, parse_data gives t the 16-bit
\* value of the first two bytes received, t_crc the third byte, rh the 16-bit
\* value of the fourth and fifth bytes and rh_crc the sixth byte.
C33_ParseData ==
    ShtcParsed =>
        LET rx == RxOf(wire[1]) IN
        /\ Len(rx) >= 6
        /\ mem["t"] = <<0, 0, rx[1], rx[2]>>
        /\ mem["t_crc"] = U32(rx[3])
        /\ mem["rh"] = <<0, 0, rx[4], rx[5]>>
        /\ mem["rh_crc"] = U32(rx[6])


\* C34: the closing assertion of each event handler (underflow, compare 0,
\* compare 1, humidity read, temperature read) finds the handler's own event
\* bit clear, whenever the interrupt that posts the event comes.
C34_OwnEventClear == fatal # "event_pending"


\* C35: in the application LETIMER0_COMP0_CB is never pending, so the main
\* loop never reaches the assertion that guards its dispatch.
C35_Comp0NeverPending ==
    /\ ~EventPending(event_scheduled, LETIMER0_COMP0_CB)
    /\ fatal # "comp0"

\* The compare-0 flag is up in LETIMER0->IF, the handler has run for the
\* underflow raised with it, and the underflow handler is being dispatched
C35_Witness ==
    /\ letimer_IF = {"COMP0"}
    /\ pc.script = UfScript /\ pc.at = "call" /\ pc.i = 1
    /\ event_scheduled = 0


\* C36: a main-loop iteration examines the nine event bits once each in the
\* order underflow, compare 0, compare 1, odd button, even button, humidity,
\* temperature, SHTC3, user settings; a bit found set is cleared, it alone,
\* as its handler is entered, and a handler is entered only from the test
\* that found its bit set.
C36_DispatchOrder ==
    [][/\ Dispatch = <<LETIMER0_UF_CB, LETIMER0_COMP0_CB, LETIMER0_COMP1_CB,
                       GPIO_ODD_IRQ_CB, GPIO_EVEN_IRQ_CB, SI7021_READ_HUM_CB,
                       SI7021_READ_TEMP_CB, SHTC3_READ_CB, SI7021_USER_CONFIRM>>
       /\ (pc'.at = "check" /\ pc' # pc) =>
             \/ /\ pc.at = "check" /\ pc'.i = pc.i + 1
                /\ ~EventPending(event_scheduled, Dispatch[pc.i])
                /\ event_scheduled' = event_scheduled
             \/ pc.at = "call" /\ pc.ret # 0 /\ pc'.i = pc.ret + 1
             \/ pc.at \in {"loop", "enter_sleep", "asleep"} /\ pc'.i = 1
       /\ (pc.at \in {"check", "call"} /\ pc.ret + pc.i > 0 /\ pc'.at = "loop") =>
             \/ pc.at = "check" /\ pc.i = Len(Dispatch)
                   /\ ~EventPending(event_scheduled, Dispatch[pc.i])
             \/ pc.at = "call" /\ pc.ret = Len(Dispatch)
       /\ (pc'.at = "call" /\ pc'.ret # 0 /\ (pc.at = "check" \/ pc.ret # pc'.ret)) =>
             /\ pc.at = "check" /\ pc'.ret = pc.i /\ pc'.i = 1
             /\ EventPending(event_scheduled, Dispatch[pc.i])
             /\ event_scheduled' = BitClear(event_scheduled, Dispatch[pc.i])
             /\ pc'.script = HandlerScript(Dispatch[pc.i])]_vars

\* The humidity handler is entered with its bit just cleared while the
\* temperature and SHTC3 events, posted during the underflow handler, wait
\* for their turn
C36_Witness ==
    /\ pc.at = "call" /\ pc.ret = 6 /\ pc.script = <<>>
    /\ ~EventPending(event_scheduled, SI7021_READ_HUM_CB)
    /\ EventPending(event_scheduled, SI7021_READ_TEMP_CB)
    /\ EventPending(event_scheduled, SHTC3_READ_CB)
    /\ fatal = "none"


\* The events interrupts post in SpecDrain
DrainEvents == {LETIMER0_COMP1_CB} \cup Buttons \cup {r.finished_callback : r \in DrainRequests}

\* The main loop has just cleared event e and entered its block
Dispatched(e) ==
    /\ pc.at = "call" /\ pc.ret # 0 /\ pc.i = 1
    /\ Dispatch[pc.ret] = e

\* C37: while no assertion stops the program, every event an interrupt
\* posts is eventually cleared and dispatched by the main loop, the loop is
\* never asleep with an event pending, and a pending interrupt ends the sleep
C37_NoStarvation ==
    /\ \A e \in DrainEvents :
          EventPending(event_scheduled, e) ~> (Dispatched(e) \/ Halted)
    /\ [](pc.at = "asleep" => event_scheduled = 0)
    /\ (pc.at = "asleep" /\ IrqPending) ~> (pc.at # "asleep" \/ Halted)

\* The last event of the order is pending behind the timer's and the
\* button's while the loop is at its top
C37_Witness ==
    /\ pc.at = "loop"
    /\ EventPending(event_scheduled, LETIMER0_COMP1_CB)
    /\ EventPending(event_scheduled, GPIO_ODD_IRQ_CB)
    /\ EventPending(event_scheduled, SI7021_USER_CONFIRM)
    /\ fatal = "none"


\* The low 32 bits of (old << 8n) | big-endian value of the first n bytes
ShiftedIn(old, bytes, n) ==
    LET all == old \o SubSeq(bytes, 1, n) IN [i \in 1 .. 4 |-> all[i + n]]

\* C38: a read of N bytes (N in 1..4) leaves in the destination the value it
\* held before the transaction shifted left by N bytes, with the N received
\* bytes below it, most significant first; the engine does not clear it.
C38_ReadShiftsIn ==
    \A b \in Buses :
        (Started(b) /\ Req(b).comm_method = "I2C_READ" /\ Req(b).num_bytes \in 1 .. 4
            /\ Posted(b)) =>
            /\ Len(RxOf(wire[b])) >= Req(b).num_bytes
            /\ mem[Req(b).data] = ShiftedIn(Req(b).value, RxOf(wire[b]), Req(b).num_bytes)

\* C38 for the reads that send a register address
C38_WithRegister ==
    \A b \in Buses :
        (Started(b) /\ Req(b).comm_method = "I2C_READ" /\ Req(b).num_bytes \in 1 .. 4
            /\ Req(b).num_register_bytes \in 1 .. 4 /\ Posted(b)) =>
            /\ Len(RxOf(wire[b])) >= Req(b).num_bytes
            /\ mem[Req(b).data] = ShiftedIn(Req(b).value, RxOf(wire[b]), Req(b).num_bytes)

\* C38 for the drivers: the engine is started for a read with the
\* destination holding zero
C38_DriversZero ==
    (pc.at = "start_issue" /\ CurReq.comm_method = "I2C_READ") => mem[CurReq.data] = Zero32


\* A transaction on bus b is between its start and its stop-detected: the
\* engine's block is taken and the context is about to be filled, or the
\* context is busy
InFlight(b) ==
    \/ sm[b].busy
    \/ pc.at = "start_issue" /\ CurReq.which_i2c = b

\* C39: in the application the I2C_EM block counter is the number of
\* transactions between start and stop-detected, at most one per bus, and
\* neither assertion of the sleep arbiter is raised.
C39_BlocksMatchTransactions ==
    /\ lowest_energy_mode[I2C_EM] = Cardinality({b \in Buses : InFlight(b)})
    /\ fatal \notin {"block_bound", "unblock_negative"}

\* Both buses have a transaction under way
C39_Witness ==
    /\ lowest_energy_mode[I2C_EM] = 2
    /\ sm[0].busy /\ sm[1].busy
    /\ fatal = "none"

====
